---- MODULE Spec2Model ----
(***************************************************************************)
(* CityCircuit ML service: the analytical core (ranking, stop sequencing,  *)
(* route scoring, optimization, improvement metrics, batch loops).         *)
(*                                                                         *)
(* Numbers.  The Python code computes in floating point; here every real   *)
(* quantity is an exact rational <<n, d>> (d > 0, lowest terms), so that   *)
(* equalities and order comparisons are decided exactly.                   *)
(* Geometry.  Stops and density points lie on one meridian; a position is  *)
(* an integer count of half kilometres, and the haversine distance of two  *)
(* points on a meridian is the length of the arc between them.             *)
(***************************************************************************)
EXTENDS Integers, Sequences, FiniteSets, TLC

VARIABLES
    pc,                 \* position of the caller: "call" before the operation, "done" after it
    results,            \* rank_optimization_results: the list to rank
    criteria,           \* rank_optimization_results: the ranking criterion
    ranked_results,     \* rank_optimization_results: the returned list
    matrix,             \* find_optimal_route_order: the PathMatrix
    stop_ids,           \* find_optimal_route_order: the requested stop ids
    optimal_order,      \* find_optimal_route_order: the returned order
    route,              \* analyze_route / optimize_route: the Route argument
    population_data,    \* analyze_route / optimize_route: the population argument
    efficiency_model,   \* RouteAnalyzer.efficiency_model of the analyzer in use
    clock,              \* the wall clock read for timestamps
    analyses,           \* the RouteAnalysisResults returned so far, oldest first
    optimized_route,    \* calculate_comprehensive_metrics: the optimized Route argument
    metrics,            \* calculate_comprehensive_metrics: its outcome
    uuid,               \* the number of identifiers generated so far
    optimizations,      \* the outcomes of the optimize_route calls so far, oldest first
    routes,             \* batch_optimize_routes / batch_analyze_routes: the routes argument
    batch_index,        \* the batch loop's position i in routes (from 0)
    batch_results,      \* the batch loop's list `results'
    candidate_stops,    \* _identify_coverage_gaps: the optimal_stops argument
    gap_reports,        \* the coverage gap lists reported so far, oldest first
    path_origin,        \* find_shortest_path: the origin_id argument
    path_destination,   \* find_shortest_path: the destination_id argument
    shortest_path,      \* find_shortest_path: what it returned, <<>> for None
    new_optimization_score, \* _calculate_new_optimization_score: what it returned, <<>> before
    stop_objects,       \* the BusStop objects in memory: stop_objects[a] is the object at address a
    stop_lists,         \* the list objects holding stops: stop_lists[l] is a sequence of addresses
    input_stops,        \* the address of the list route.stops of the Route argument
    output_stops,       \* the address of the list optimized_route.stops of the result, 0 if none
    bottleneck_stops,   \* _remove_bottleneck_stops: the stops argument
    bottleneck_list,    \* _remove_bottleneck_stops: the bottlenecks argument
    filtered_stops,     \* _remove_bottleneck_stops: what it returned, <<>> before the call
    weight_map,         \* the weights argument: <<>> for None, <<w>> for a dictionary w
    weighted_scores     \* _calculate_weighted_overall_score of each result of the list

rankVars == <<results, criteria, ranked_results>>
tspVars == <<matrix, stop_ids, optimal_order>>
anaVars == <<route, population_data, efficiency_model, clock, analyses>>
metVars == <<optimized_route, metrics>>
optVars == <<uuid, optimizations>>
batchVars == <<routes, batch_index, batch_results>>
gapVars == <<candidate_stops, gap_reports>>
pathVars == <<path_origin, path_destination, shortest_path>>
scoreVars == <<new_optimization_score>>
heapVars == <<stop_objects, stop_lists, input_stops, output_stops>>
removeVars == <<bottleneck_stops, bottleneck_list, filtered_stops>>
weightVars == <<weight_map, weighted_scores>>
vars == <<pc, rankVars, tspVars, anaVars, metVars, optVars, batchVars, gapVars, pathVars, scoreVars, heapVars, removeVars, weightVars>>
notRank == <<tspVars, anaVars, metVars, optVars, batchVars, gapVars, pathVars, scoreVars, heapVars, removeVars, weightVars>>
notTsp == <<rankVars, anaVars, metVars, optVars, batchVars, gapVars, pathVars, scoreVars, heapVars, removeVars, weightVars>>
notAna == <<rankVars, tspVars, metVars, optVars, batchVars, gapVars, pathVars, scoreVars, heapVars, removeVars, weightVars>>
notMet == <<rankVars, tspVars, efficiency_model, clock, analyses, optVars, batchVars, gapVars, pathVars, scoreVars, heapVars, removeVars, weightVars>>
notOpt == <<rankVars, tspVars, analyses, metVars, batchVars, gapVars, pathVars, scoreVars, heapVars, removeVars, weightVars>>
notBatch == <<rankVars, tspVars, metVars, gapVars, pathVars, scoreVars, heapVars, removeVars, weightVars>>
notGap == <<rankVars, tspVars, anaVars, metVars, optVars, batchVars, pathVars, scoreVars, heapVars, removeVars, weightVars>>
notPath == <<rankVars, tspVars, anaVars, metVars, optVars, batchVars, gapVars, scoreVars, heapVars, removeVars, weightVars>>
notScore == <<rankVars, tspVars, metVars, optVars, batchVars, gapVars, pathVars, heapVars, removeVars, weightVars>>
notHeap == <<rankVars, tspVars, analyses, metVars, batchVars, gapVars, pathVars, scoreVars, removeVars, weightVars>>
notRemove == <<rankVars, tspVars, anaVars, metVars, optVars, batchVars, gapVars, pathVars, scoreVars, heapVars, weightVars>>
notWeight == <<tspVars, anaVars, metVars, optVars, batchVars, gapVars, pathVars, scoreVars, heapVars, removeVars>>

None == "None"

(***************************************************************************)
(* Exact rational arithmetic                                               *)
(***************************************************************************)
Abs(x) == IF x < 0 THEN -x ELSE x

RECURSIVE GCD(_, _)
GCD(a, b) == IF b = 0 THEN a ELSE GCD(b, a % b)

Rat(n, d) ==
    LET g == GCD(Abs(n), Abs(d))
        s == IF d < 0 THEN -1 ELSE 1
    IN  <<(s * n) \div g, (s * d) \div g>>

R(n) == <<n, 1>>
RAdd(a, b) ==
    LET l == (a[2] \div GCD(a[2], b[2])) * b[2]
    IN  Rat(a[1] * (l \div a[2]) + b[1] * (l \div b[2]), l)
RNeg(a) == <<-a[1], a[2]>>
RSub(a, b) == RAdd(a, RNeg(b))
RMul(a, b) ==
    LET g1 == GCD(Abs(a[1]), b[2])
        g2 == GCD(Abs(b[1]), a[2])
    IN  Rat((a[1] \div g1) * (b[1] \div g2), (a[2] \div g2) * (b[2] \div g1))
RDiv(a, b) == RMul(a, Rat(b[2], b[1]))
\* comparisons over the least common denominator; <<1, 0>> stands for float('inf')
RLt(a, b) ==
    LET g == IF a[2] = 0 /\ b[2] = 0 THEN 1 ELSE GCD(a[2], b[2])
    IN  a[1] * (b[2] \div g) < b[1] * (a[2] \div g)
RLe(a, b) == ~RLt(b, a)
RMin(a, b) == IF RLt(b, a) THEN b ELSE a     \* Python min(a, b)
RMax(a, b) == IF RLt(a, b) THEN b ELSE a     \* Python max(a, b)
\* Python int(x): truncation toward zero
RInt(a) == IF a[1] >= 0 THEN a[1] \div a[2] ELSE -((-a[1]) \div a[2])

\* sums of a sequence, split in halves (exact sums do not depend on the order)
RECURSIVE RSumRange(_, _, _)
RSumRange(s, lo, hi) ==
    IF lo > hi THEN R(0)
    ELSE IF lo = hi THEN s[lo]
    ELSE RAdd(RSumRange(s, lo, (lo + hi) \div 2), RSumRange(s, (lo + hi) \div 2 + 1, hi))
RSum(s) == RSumRange(s, 1, Len(s))

RECURSIVE SumRange(_, _, _)
SumRange(s, lo, hi) ==
    IF lo > hi THEN 0
    ELSE IF lo = hi THEN s[lo]
    ELSE SumRange(s, lo, (lo + hi) \div 2) + SumRange(s, (lo + hi) \div 2 + 1, hi)
Sum(s) == SumRange(s, 1, Len(s))

Range(s) == {s[i] : i \in 1..Len(s)}
Count(s, P(_)) == Cardinality({i \in 1..Len(s) : P(s[i])})

\* All sequences over S of length 0..n
RECURSIVE SeqsUpTo(_, _)
SeqsUpTo(S, n) ==
    IF n = 0 THEN {<<>>}
    ELSE LET shorter == SeqsUpTo(S, n - 1)
         IN  shorter \cup {Append(s, x) : s \in {t \in shorter : Len(t) = n - 1}, x \in S}

\* The rearrangements of a sequence (as sequences)
Perms(s) ==
    {[i \in 1..Len(s) |-> s[p[i]]] :
        p \in {q \in [1..Len(s) -> 1..Len(s)] : \A i, j \in 1..Len(s) : q[i] = q[j] => i = j}}

\* the elements of a set of integers in ascending order
RECURSIVE SetToSortedSeq(_)
SetToSortedSeq(S) ==
    IF S = {} THEN <<>>
    ELSE LET m == CHOOSE x \in S : \A y \in S : x <= y
         IN  <<m>> \o SetToSortedSeq(S \ {m})

\* <<F(i) : i in 1..n, P(i)>> in ascending order of i
FilterMap(n, P(_), F(_)) ==
    LET ix == SetToSortedSeq({i \in 1..n : P(i)})
    IN  [k \in 1..Len(ix) |-> F(ix[k])]

\* a and b hold the same elements, each as often
IsPermutationOf(a, b) ==
    /\ Len(a) = Len(b)
    /\ \A x \in Range(a) \cup Range(b) :
          Cardinality({i \in 1..Len(a) : a[i] = x}) = Cardinality({i \in 1..Len(b) : b[i] = x})

(***************************************************************************)
(* Data model (models/route.py, models/optimization.py)                    *)
(***************************************************************************)
\* BusStop
Stop(id, pos, amenities, count, acc) ==
    [id |-> id, pos |-> pos, amenities |-> amenities,
     daily_passenger_count |-> count, is_accessible |-> acc]

\* OptimizationMetrics.get_overall_score
get_overall_score(m) ==
    RMin(RSum(<<RMul(m.time_improvement, Rat(3, 10)),
                RMul(m.distance_reduction, Rat(2, 10)),
                RMul(m.passenger_coverage_increase, Rat(3, 10)),
                RMul(RMin(m.cost_savings, R(100)), Rat(2, 10))>>),
         R(100))

(***************************************************************************)
(* RouteRankingEngine (algorithms/result_generator.py)                     *)
(***************************************************************************)
RankingCriteria ==
    {"time_efficiency", "cost_effectiveness", "passenger_coverage",
     "accessibility", "environmental_impact", "overall_score"}

accessibility_amenities == {"wheelchair_accessible", "tactile_paving", "audio_announcements"}

\* RouteRankingEngine._calculate_accessibility_score
ranking_accessibility_score(rt) ==
    IF rt.stops = <<>> THEN R(0)
    ELSE LET n == Len(rt.stops)
             accessible_stops == Count(rt.stops, LAMBDA st : st.is_accessible)
             accessibility_ratio == Rat(accessible_stops, n)
             amenity_score ==
                 Sum([i \in 1..n |->
                        Count(rt.stops[i].amenities, LAMBDA a : a \in accessibility_amenities)])
             avg_amenity_score == Rat(amenity_score, n)
             total_score == RAdd(RMul(accessibility_ratio, R(70)),
                                 RMul(RMin(avg_amenity_score, R(3)), R(10)))
         IN  RMin(total_score, R(100))

\* RouteRankingEngine._calculate_environmental_score
calculate_environmental_score(result) ==
    LET distance_score == RMul(result.metrics.distance_reduction, Rat(6, 10))
        coverage_score == RMin(RMul(result.metrics.passenger_coverage_increase, Rat(3, 10)), R(20))
        accessibility_score == RMul(ranking_accessibility_score(result.optimized_route), Rat(1, 10))
    IN  RMin(RSum(<<distance_score, coverage_score, accessibility_score>>), R(100))

\* the keys _calculate_weighted_overall_score looks up, in its order
weight_keys ==
    <<"time_improvement", "distance_reduction", "passenger_coverage",
      "cost_savings", "accessibility", "environmental">>

\* the weights _calculate_weighted_overall_score takes when weights is None
default_weights ==
    ("time_improvement" :> Rat(25, 100)) @@ ("distance_reduction" :> Rat(20, 100))
    @@ ("passenger_coverage" :> Rat(25, 100)) @@ ("cost_savings" :> Rat(15, 100))
    @@ ("accessibility" :> Rat(10, 100)) @@ ("environmental" :> Rat(5, 100))

\* sum(weights.values()) over the keys in S
RECURSIVE SumValues(_, _)
SumValues(w, S) ==
    IF S = {} THEN R(0)
    ELSE LET k == CHOOSE x \in S : TRUE
         IN  RAdd(w[k], SumValues(w, S \ {k}))

\* weights applied as they were given
unnormalized_weights(w) == w

\* `Normalize weights to sum to 1.0': every value over the total, when the
\* total is positive
normalized_weights(w) ==
    LET total_weight == SumValues(w, DOMAIN w)
    IN  IF RLt(R(0), total_weight)
        THEN [k \in DOMAIN w |-> RDiv(w[k], total_weight)]
        ELSE w

\* the score components by key
WeightedComponent(result, key) ==
    CASE key = "time_improvement"   -> result.metrics.time_improvement
      [] key = "distance_reduction" -> result.metrics.distance_reduction
      [] key = "passenger_coverage" -> result.metrics.passenger_coverage_increase
      [] key = "cost_savings"       -> result.metrics.cost_savings
      [] key = "accessibility"      -> ranking_accessibility_score(result.optimized_route)
      [] key = "environmental"      -> calculate_environmental_score(result)

\* RouteRankingEngine._calculate_weighted_overall_score; weights is <<>> for
\* None and <<w>> for a dictionary w
calculate_weighted_overall_score(result, weights) ==
    LET w == normalized_weights(IF weights = <<>> THEN default_weights ELSE weights[1])
        score == RSum([i \in 1..Len(weight_keys) |->
                         IF weight_keys[i] \in DOMAIN w
                         THEN RMul(WeightedComponent(result, weight_keys[i]), w[weight_keys[i]])
                         ELSE R(0)])
    IN  RMin(score, R(100))

\* a ranking score that takes the weighted composite for the overall criterion
calculate_ranking_score_weighted(result, crit, weights) ==
    CASE crit = "time_efficiency"      -> result.metrics.time_improvement
      [] crit = "cost_effectiveness"   -> result.metrics.cost_savings
      [] crit = "passenger_coverage"   -> result.metrics.passenger_coverage_increase
      [] crit = "accessibility"        -> ranking_accessibility_score(result.optimized_route)
      [] crit = "environmental_impact" -> calculate_environmental_score(result)
      [] OTHER                         -> calculate_weighted_overall_score(result, weights)

\* RouteRankingEngine._calculate_ranking_score
calculate_ranking_score(result, crit, weights) ==
    CASE crit = "time_efficiency"      -> result.metrics.time_improvement
      [] crit = "cost_effectiveness"   -> result.metrics.cost_savings
      [] crit = "passenger_coverage"   -> result.metrics.passenger_coverage_increase
      [] crit = "accessibility"        -> ranking_accessibility_score(result.optimized_route)
      [] crit = "environmental_impact" -> calculate_environmental_score(result)
      [] OTHER                         -> get_overall_score(result.metrics)

\* list.sort(key=lambda x: x[0].original_route_id): stable, ascending
RECURSIVE InsertByRouteId(_, _)
InsertByRouteId(sorted, x) ==
    IF sorted = <<>> THEN <<x>>
    ELSE IF x[1].original_route_id < Head(sorted)[1].original_route_id
         THEN <<x>> \o sorted
         ELSE <<Head(sorted)>> \o InsertByRouteId(Tail(sorted), x)

RECURSIVE SortByRouteId(_)
SortByRouteId(s) ==
    IF s = <<>> THEN <<>>
    ELSE InsertByRouteId(SortByRouteId(SubSeq(s, 1, Len(s) - 1)), s[Len(s)])

\* list.sort(key=lambda x: x[1], reverse=True): stable, descending
RECURSIVE InsertByScoreAsc(_, _)
InsertByScoreAsc(sorted, x) ==
    IF sorted = <<>> THEN <<x>>
    ELSE IF RLt(x[2], Head(sorted)[2])
         THEN <<x>> \o sorted
         ELSE <<Head(sorted)>> \o InsertByScoreAsc(Tail(sorted), x)

RECURSIVE InsertByScore(_, _)
InsertByScore(sorted, x) ==
    IF sorted = <<>> THEN <<x>>
    ELSE IF RLt(Head(sorted)[2], x[2])
         THEN <<x>> \o sorted
         ELSE <<Head(sorted)>> \o InsertByScore(Tail(sorted), x)

RECURSIVE SortByScore(_)
SortByScore(s) ==
    IF s = <<>> THEN <<>>
    ELSE InsertByScore(SortByScore(SubSeq(s, 1, Len(s) - 1)), s[Len(s)])

\* the scoring loop of rank_optimization_results
ScoredResults(rs, crit, weights) ==
    [i \in 1..Len(rs) |-> <<rs[i], calculate_ranking_score(rs[i], crit, weights)>>]

\* RouteRankingEngine.rank_optimization_results
rank_optimization_results(rs, crit, weights) ==
    IF rs = <<>> THEN <<>>
    ELSE LET scored_results == SortByScore(SortByRouteId(ScoredResults(rs, crit, weights)))
         IN  [i \in 1..Len(scored_results) |-> scored_results[i][1]]

(***************************************************************************)
(* PathMatrixCalculator: stop sequencing (algorithms/path_matrix.py)       *)
(***************************************************************************)
Inf == <<1, 0>>                 \* float('inf'): RLt(x, Inf) for every rational x

\* list.index: the first position of x
IndexOf(s, x) == CHOOSE i \in 1..Len(s) : s[i] = x /\ \A j \in 1..(i - 1) : s[j] # x

\* s without its element at position i
RemoveAt(s, i) == SubSeq(s, 1, i - 1) \o SubSeq(s, i + 1, Len(s))

\* itertools.permutations(s): every arrangement of the positions of s, in
\* lexicographic order of positions
RECURSIVE permutations(_)
permutations(s) ==
    IF s = <<>> THEN << <<>> >>
    ELSE LET Block(i) ==
                 LET rest == permutations(RemoveAt(s, i))
                 IN  [k \in 1..Len(rest) |-> <<s[i]>> \o rest[k]]
             RECURSIVE Blocks(_)
             Blocks(i) == IF i > Len(s) THEN <<>> ELSE Block(i) \o Blocks(i + 1)
         IN  Blocks(1)

\* an indices list that takes the first stop of the matrix for an id it lacks
MatrixIndicesDefaulting(m, ids) ==
    [i \in 1..Len(ids) |->
        IF ids[i] \in Range(m.stop_ids) THEN IndexOf(m.stop_ids, ids[i]) ELSE 1]

\* the indices list built by _brute_force_tsp and _nearest_neighbor_tsp
MatrixIndices(m, ids) ==
    LET found == {i \in 1..Len(ids) : ids[i] \in Range(m.stop_ids)}
        RECURSIVE Collect(_)
        Collect(i) ==
            IF i > Len(ids) THEN <<>>
            ELSE (IF i \in found THEN <<IndexOf(m.stop_ids, ids[i])>> ELSE <<>>) \o Collect(i + 1)
    IN  Collect(1)

\* the inner loop of _brute_force_tsp: sum of consecutive distances
OrderDistanceOpen(m, order) ==
    RSum([i \in 1..(Len(order) - 2) |-> m.distance_matrix[order[i]][order[i + 1]]])

OrderDistance(m, order) ==
    RSum([i \in 1..(Len(order) - 1) |-> m.distance_matrix[order[i]][order[i + 1]]])

\* a search that also replaces the best order by one of equal distance
NotLonger(total_distance, best_distance) == RLe(total_distance, best_distance)

\* the test `total_distance < best_distance' of _brute_force_tsp
Shorter(total_distance, best_distance) == RLt(total_distance, best_distance)

\* PathMatrixCalculator._brute_force_tsp
brute_force_tsp(m, ids) ==
    IF ids = <<>> THEN <<>>
    ELSE LET indices == MatrixIndices(m, ids)
         IN  IF Len(indices) # Len(ids) THEN ids
             ELSE LET first_stop == indices[1]
                      perms == permutations(Tail(indices))
                      RECURSIVE Search(_, _, _)
                      Search(k, best_order, best_distance) ==
                          IF k > Len(perms) THEN best_order
                          ELSE LET order == <<first_stop>> \o perms[k]
                                   total_distance == OrderDistance(m, order)
                               IN  IF Shorter(total_distance, best_distance)
                                   THEN Search(k + 1, order, total_distance)
                                   ELSE Search(k + 1, best_order, best_distance)
                      best == Search(1, indices, Inf)
                  IN  [i \in 1..Len(best) |-> m.stop_ids[best[i]]]

\* a choice of the next stop that looks at the index alone
lowest_unvisited(m, current, unvisited) ==
    CHOOSE x \in unvisited : \A y \in unvisited : x <= y

\* min(unvisited, key = distance from current): min over the set of unvisited
\* indices meets them in ascending order, so the lowest index wins a tie
nearest_unvisited(m, current, unvisited) ==
    CHOOSE x \in unvisited :
        \A y \in unvisited :
            \/ RLt(m.distance_matrix[current][x], m.distance_matrix[current][y])
            \/ /\ m.distance_matrix[current][x] = m.distance_matrix[current][y]
               /\ x <= y

\* PathMatrixCalculator._nearest_neighbor_tsp
nearest_neighbor_tsp(m, ids) ==
    IF ids = <<>> THEN <<>>
    ELSE LET indices == MatrixIndices(m, ids)
         IN  IF Len(indices) # Len(ids) THEN ids
             ELSE LET RECURSIVE Visit(_, _, _)
                      Visit(current, unvisited, rt) ==
                          IF unvisited = {} THEN rt
                          ELSE LET nearest == nearest_unvisited(m, current, unvisited)
                               IN  Visit(nearest, unvisited \ {nearest}, Append(rt, nearest))
                      rt == Visit(indices[1], Range(Tail(indices)), <<indices[1]>>)
                  IN  [i \in 1..Len(rt) |-> m.stop_ids[rt[i]]]

brute_force_limit == 8      \* the longest stop list find_optimal_route_order enumerates

\* PathMatrixCalculator.find_optimal_route_order
find_optimal_route_order(m, ids) ==
    IF Len(ids) <= 2 THEN ids
    ELSE IF Len(ids) <= brute_force_limit THEN brute_force_tsp(m, ids)
    ELSE nearest_neighbor_tsp(m, ids)

\* the distance find_shortest_path offers for a vertex reached over an edge
\* if it forgot the distance of the vertex it comes from
EdgeAlone(dist_from, edge) == edge

\* the distance find_shortest_path offers for a vertex reached over an edge
ThroughVertex(dist_from, edge) == RAdd(dist_from, edge)

\* PathMatrixCalculator.find_shortest_path: <<path>> for a stop-id path and
\* <<>> for None; a parent of 0 stands for the code's -1
find_shortest_path(m, origin_id, destination_id) ==
    LET n_stops == Len(m.stop_ids)
        distances == m.distance_matrix
        \* the unvisited vertex of least finite distance, the lowest index first; 0 if none
        MinIdx(visited, dist) ==
            IF \E v \in (1..n_stops) \ visited : RLt(dist[v], Inf)
            THEN CHOOSE v \in (1..n_stops) \ visited :
                     \A w \in (1..n_stops) \ visited :
                         RLt(dist[v], dist[w]) \/ (dist[v] = dist[w] /\ v <= w)
            ELSE 0
        Improves(visited, dist, min_idx, v) ==
            /\ v \notin visited /\ v # min_idx
            /\ RLt(R(0), distances[min_idx][v])
            /\ RLt(ThroughVertex(dist[min_idx], distances[min_idx][v]), dist[v])
        RECURSIVE Round(_, _, _, _), Visit(_, _, _, _, _), Back(_, _)
        Round(rounds, visited, dist, parent) ==
            IF rounds = 0 THEN [dist |-> dist, parent |-> parent]
            ELSE Visit(rounds, visited, dist, parent, MinIdx(visited, dist))
        Visit(rounds, visited, dist, parent, min_idx) ==
            IF min_idx = 0 THEN [dist |-> dist, parent |-> parent]
            ELSE Round(rounds - 1, visited \cup {min_idx},
                       [v \in 1..n_stops |->
                           IF Improves(visited, dist, min_idx, v)
                           THEN ThroughVertex(dist[min_idx], distances[min_idx][v])
                           ELSE dist[v]],
                       [v \in 1..n_stops |->
                           IF Improves(visited, dist, min_idx, v) THEN min_idx ELSE parent[v]])
        Back(parent, current) ==
            IF current = 0 THEN <<>>
            ELSE Append(Back(parent, parent[current]), m.stop_ids[current])
        Reconstruct(found, destination_idx) ==
            IF found.dist[destination_idx] = Inf THEN <<>>
            ELSE <<Back(found.parent, destination_idx)>>
        Search(origin_idx, destination_idx) ==
            Reconstruct(Round(n_stops, {},
                              [v \in 1..n_stops |-> IF v = origin_idx THEN R(0) ELSE Inf],
                              [v \in 1..n_stops |-> 0]),
                        destination_idx)
    IN  IF origin_id \notin Range(m.stop_ids) \/ destination_id \notin Range(m.stop_ids)
        THEN <<>>
        ELSE Search(IndexOf(m.stop_ids, origin_id), IndexOf(m.stop_ids, destination_id))

(***************************************************************************)
(* RouteAnalyzer (algorithms/route_analyzer.py)                            *)
(*                                                                         *)
(* A route is [id, stops, is_active, optimization_score,                   *)
(* estimated_travel_time]; population data is [given, density_points],     *)
(* given = FALSE standing for the argument None; a density point is        *)
(* [pos, population].                                                      *)
(***************************************************************************)
\* haversine distance in km of two points on the meridian (positions in half km)
calculate_distance(pos1, pos2) == Rat(Abs(pos1 - pos2), 2)

\* latitude in degrees of a position: one half kilometre of arc is taken as
\* 0.0045 degrees
Latitude(pos) == Rat(9 * pos, 2000)

SeqMax(s) == CHOOSE x \in Range(s) : \A y \in Range(s) : y <= x
SeqMin(s) == CHOOSE x \in Range(s) : \A y \in Range(s) : x <= y

StopPositions(rt) == [i \in 1..Len(rt.stops) |-> rt.stops[i].pos]
PassengerCounts(stops) == [i \in 1..Len(stops) |-> stops[i].daily_passenger_count]

\* the distance loops of RouteAnalyzer and EfficiencyMetricsCalculator:
\* sum of the distances of consecutive stops
RouteDistance(stops) ==
    RSum([i \in 1..(Len(stops) - 1) |-> calculate_distance(stops[i].pos, stops[i + 1].pos)])

\* RouteAnalysisResult.get_overall_score
analysis_overall_score(a) ==
    RSum(<<RMul(a.efficiency_score, Rat(25, 100)),
           RMul(a.coverage_score, Rat(25, 100)),
           RMul(a.accessibility_score, Rat(20, 100)),
           RMul(a.passenger_demand_score, Rat(30, 100))>>)

\* RouteAnalyzer._extract_efficiency_features
extract_efficiency_features(rt) ==
    LET n == Len(rt.stops)
        avg_distance == IF n > 1 THEN RDiv(RouteDistance(rt.stops), R(n - 1)) ELSE R(0)
        time_per_stop == IF n > 0 THEN Rat(rt.estimated_travel_time, n) ELSE R(0)
        accessible_stops == Count(rt.stops, LAMBDA st : st.is_accessible)
        accessibility_ratio == IF n > 0 THEN Rat(accessible_stops, n) ELSE R(0)
        avg_passengers == IF n > 0 THEN Rat(Sum(PassengerCounts(rt.stops)), n) ELSE R(0)
        lat_spread == IF n > 1
                      THEN RSub(Latitude(SeqMax(StopPositions(rt))),
                                Latitude(SeqMin(StopPositions(rt))))
                      ELSE R(0)
        lon_spread == R(0)
        features == <<R(n), avg_distance, time_per_stop, accessibility_ratio,
                      RDiv(avg_passengers, R(1000)),
                      IF rt.is_active THEN R(1) ELSE R(0),
                      RDiv(rt.optimization_score, R(100)),
                      lat_spread, lon_spread>>
    IN  features \o <<R(0)>>        \* padded to exactly 10 features

\* RouteAnalyzer._rule_based_efficiency_score
rule_based_efficiency_score(features) ==
    LET stop_count == features[1]
        avg_distance == features[2]
        time_per_stop == features[3]
        accessibility_ratio == features[4]
        s1 == IF RLe(R(8), stop_count) /\ RLe(stop_count, R(12)) THEN R(65)
              ELSE IF RLe(R(5), stop_count) /\ RLe(stop_count, R(15)) THEN R(60)
              ELSE R(40)
        s2 == IF RLe(Rat(1, 2), avg_distance) /\ RLe(avg_distance, R(2)) THEN RAdd(s1, R(10))
              ELSE IF RLt(R(5), avg_distance) THEN RSub(s1, R(15))
              ELSE s1
        s3 == IF RLe(time_per_stop, R(5)) THEN RAdd(s2, R(10))
              ELSE IF RLt(R(10), time_per_stop) THEN RSub(s2, R(10))
              ELSE s2
        score == RAdd(s3, RMul(accessibility_ratio, R(15)))
    IN  RMax(R(0), RMin(R(100), score))

\* RouteAnalyzer._calculate_efficiency_score; prediction is <<y>> for the
\* output y of efficiency_model.predict on the features, and <<>> when the
\* analyzer has no model
calculate_efficiency_score(rt, prediction) ==
    LET features == extract_efficiency_features(rt)
        score == IF prediction # <<>>
                 THEN RMul(prediction[1], R(100))
                 ELSE rule_based_efficiency_score(features)
    IN  RMax(R(0), RMin(R(100), score))

\* RouteAnalyzer._basic_coverage_score
basic_coverage_score(rt) ==
    IF rt.stops = <<>> THEN R(0)
    ELSE LET lat_range == RSub(Latitude(SeqMax(StopPositions(rt))),
                               Latitude(SeqMin(StopPositions(rt))))
             lon_range == R(0)
             coverage == RMin(R(100), RMul(RAdd(lat_range, lon_range), R(1000)))
         IN  RMax(R(10), coverage)

\* coverage_radius of the route analyzer: 0.01, compared with distances in km
analyzer_coverage_radius == Rat(1, 100)

\* RouteAnalyzer._calculate_coverage_score
calculate_coverage_score(rt, pop) ==
    IF ~pop.given \/ pop.density_points = <<>>
    THEN basic_coverage_score(rt)
    ELSE LET points == pop.density_points
             total_population == Sum([i \in 1..Len(points) |-> points[i].population])
             Covered(pt) ==
                 \E i \in 1..Len(rt.stops) :
                     RLe(calculate_distance(rt.stops[i].pos, pt.pos), analyzer_coverage_radius)
             covered_population ==
                 Sum([i \in 1..Len(points) |->
                        IF Covered(points[i]) THEN points[i].population ELSE 0])
         IN  IF total_population = 0 THEN R(50)
             ELSE RMin(R(100), RMul(Rat(covered_population, total_population), R(100)))

\* RouteAnalyzer._calculate_accessibility_score
calculate_accessibility_score(rt) ==
    IF rt.stops = <<>> THEN R(0)
    ELSE LET n == Len(rt.stops)
             accessible_count == Count(rt.stops, LAMBDA st : st.is_accessible)
             accessibility_ratio == Rat(accessible_count, n)
             amenity_bonus == Sum([i \in 1..n |-> Len(rt.stops[i].amenities)])
             amenity_score == RMin(R(20), Rat(amenity_bonus, n))
         IN  RAdd(RMul(accessibility_ratio, R(80)), amenity_score)

\* _estimate_travel_time without the final max: the recomputed time alone
estimate_travel_time_recomputed(rt) ==
    IF Len(rt.stops) < 2 THEN rt.estimated_travel_time
    ELSE RInt(RMul(RDiv(RouteDistance(rt.stops), R(25)), R(60))) + Len(rt.stops) * 2

\* RouteAnalyzer._estimate_travel_time
estimate_travel_time(rt) ==
    IF Len(rt.stops) < 2 THEN rt.estimated_travel_time
    ELSE LET total_distance == RouteDistance(rt.stops)
             travel_time_hours == RDiv(total_distance, R(25))
             travel_time_minutes == RInt(RMul(travel_time_hours, R(60)))
             stop_time == Len(rt.stops) * 2
             estimated_time == travel_time_minutes + stop_time
         IN  IF estimated_time >= rt.estimated_travel_time
             THEN estimated_time ELSE rt.estimated_travel_time

\* RouteAnalyzer._calculate_density_bonus
calculate_density_bonus(rt, pop) ==
    LET points == pop.density_points
        nearby_population(st) ==
            Sum([i \in 1..Len(points) |->
                   IF RLe(calculate_distance(st.pos, points[i].pos), analyzer_coverage_radius)
                   THEN points[i].population ELSE 0])
        bonus == RSum([i \in 1..Len(rt.stops) |->
                         RMin(R(10), Rat(nearby_population(rt.stops[i]), 1000))])
    IN  RMin(R(20), RDiv(bonus, R(Len(rt.stops))))

\* the demand score without its caps at 100
calculate_passenger_demand_score_uncapped(rt, pop) ==
    IF rt.stops = <<>> THEN R(0)
    ELSE LET total_passengers == Sum(PassengerCounts(rt.stops))
             avg_passengers == Rat(total_passengers, Len(rt.stops))
             base_score == RMul(RDiv(avg_passengers, R(1000)), R(100))
         IN  IF pop.given /\ pop.density_points # <<>>
             THEN RAdd(base_score, calculate_density_bonus(rt, pop))
             ELSE base_score

\* RouteAnalyzer._calculate_passenger_demand_score
calculate_passenger_demand_score(rt, pop) ==
    IF rt.stops = <<>> THEN R(0)
    ELSE LET total_passengers == Sum(PassengerCounts(rt.stops))
             avg_passengers == Rat(total_passengers, Len(rt.stops))
             base_score == RMin(R(100), RMul(RDiv(avg_passengers, R(1000)), R(100)))
         IN  IF pop.given /\ pop.density_points # <<>>
             THEN RMin(R(100), RAdd(base_score, calculate_density_bonus(rt, pop)))
             ELSE base_score

\* the high-demand loop with severity high only above four times the average
HighDemandBottlenecksAboveFour(rt) ==
    LET stops == rt.stops
        avg_passengers == Rat(Sum(PassengerCounts(stops)), Len(stops))
        high_threshold == RMul(avg_passengers, R(2))
    IN  FilterMap(Len(stops),
                  LAMBDA i : RLt(high_threshold, R(stops[i].daily_passenger_count)),
                  LAMBDA i : [type |-> "high_demand_stop",
                              stop_index |-> i - 1,
                              passenger_count |-> stops[i].daily_passenger_count,
                              severity |-> IF RLt(RMul(avg_passengers, R(4)),
                                                  R(stops[i].daily_passenger_count))
                                           THEN "high" ELSE "medium"])

\* the high-demand loop of _identify_bottlenecks; indices are Python's (from 0)
HighDemandBottlenecks(rt) ==
    LET stops == rt.stops
        avg_passengers == Rat(Sum(PassengerCounts(stops)), Len(stops))
        high_threshold == RMul(avg_passengers, R(2))
    IN  FilterMap(Len(stops),
                  LAMBDA i : RLt(high_threshold, R(stops[i].daily_passenger_count)),
                  LAMBDA i : [type |-> "high_demand_stop",
                              stop_index |-> i - 1,
                              passenger_count |-> stops[i].daily_passenger_count,
                              severity |-> IF RLt(RMul(avg_passengers, R(3)),
                                                  R(stops[i].daily_passenger_count))
                                           THEN "high" ELSE "medium"])

\* the large-gap loop of _identify_bottlenecks
LargeGapBottlenecks(rt) ==
    LET stops == rt.stops
        distance(i) == calculate_distance(stops[i].pos, stops[i + 1].pos)
    IN  FilterMap(Len(stops) - 1,
                  LAMBDA i : RLt(R(5), distance(i)),
                  LAMBDA i : [type |-> "large_gap",
                              stop_index |-> i - 1,
                              next_stop_index |-> i,
                              distance_km |-> distance(i),
                              severity |-> IF RLt(R(10), distance(i)) THEN "high" ELSE "medium"])

\* the accessibility check of _identify_bottlenecks
AccessibilityBottlenecks(rt) ==
    LET stops == rt.stops
        inaccessible_stops == FilterMap(Len(stops), LAMBDA i : ~stops[i].is_accessible,
                                        LAMBDA i : i - 1)
    IN  IF 2 * Len(inaccessible_stops) > Len(stops)
        THEN <<[type |-> "accessibility_issue", affected_stops |-> inaccessible_stops,
                severity |-> "medium"]>>
        ELSE <<>>

\* RouteAnalyzer._identify_bottlenecks
identify_bottlenecks(rt) ==
    IF Len(rt.stops) < 2 THEN <<>>
    ELSE HighDemandBottlenecks(rt) \o LargeGapBottlenecks(rt)
            \o AccessibilityBottlenecks(rt)

\* RouteAnalyzer._generate_recommendations
generate_recommendations(rt, efficiency_score, coverage_score, accessibility_score) ==
    LET n == Len(rt.stops)
        efficiency ==
            IF RLt(efficiency_score, R(60))
            THEN (IF n > 15
                  THEN <<"Consider reducing the number of stops to improve efficiency">>
                  ELSE IF n < 5
                  THEN <<"Consider adding more stops to better serve the area">>
                  ELSE <<>>)
                 \o <<"Review stop spacing and timing to optimize travel efficiency">>
            ELSE <<>>
        coverage ==
            IF RLt(coverage_score, R(50))
            THEN <<"Consider adjusting route path to cover higher population density areas",
                   "Analyze population data to identify underserved areas">>
            ELSE <<>>
        accessibility ==
            IF RLt(accessibility_score, R(70))
            THEN <<"Improve wheelchair accessibility at more stops",
                   "Add amenities like shelters and seating at stops">>
            ELSE <<>>
        general ==
            (IF rt.estimated_travel_time > 120
             THEN <<"Consider splitting this route into shorter segments">> ELSE <<>>)
            \o (IF ~rt.is_active
                THEN <<"Evaluate reactivating this route based on analysis results">> ELSE <<>>)
        recommendations == efficiency \o coverage \o accessibility \o general
    IN  IF recommendations = <<>>
        THEN <<"Route performance is good - consider minor optimizations for continuous improvement">>
        ELSE recommendations

\* RouteAnalyzer.analyze_route; now is the clock reading taken for the timestamp
analyze_route(rt, pop, prediction, now) ==
    LET efficiency_score == calculate_efficiency_score(rt, prediction)
        coverage_score == calculate_coverage_score(rt, pop)
        accessibility_score == calculate_accessibility_score(rt)
    IN  [route_id |-> rt.id,
         efficiency_score |-> efficiency_score,
         coverage_score |-> coverage_score,
         accessibility_score |-> accessibility_score,
         travel_time_estimate |-> estimate_travel_time(rt),
         passenger_demand_score |-> calculate_passenger_demand_score(rt, pop),
         bottlenecks |-> identify_bottlenecks(rt),
         recommendations |-> generate_recommendations(rt, efficiency_score,
                                                      coverage_score, accessibility_score),
         analysis_timestamp |-> now]

(***************************************************************************)
(* Ranking requests                                                        *)
(***************************************************************************)
MaxResults == 3

RankRouteIds == {1, 2}          \* original_route_id values; several results may share one

RankRoutes ==
    {[stops |-> <<Stop(1, 0, <<"wheelchair_accessible">>, 1000, TRUE),
                  Stop(2, 2, <<"shelter">>, 800, TRUE)>>],
     [stops |-> <<Stop(1, 0, <<>>, 1000, FALSE),
                  Stop(2, 2, <<"shelter">>, 800, FALSE)>>]}

RankMetrics ==
    {m \in [time_improvement : {R(0), R(10)}, distance_reduction : {R(5)},
            passenger_coverage_increase : {R(0), R(10)}, cost_savings : {R(10)}] :
        ~(m.time_improvement = R(10) /\ m.passenger_coverage_increase = R(10))}

RankPool == [original_route_id : RankRouteIds, optimized_route : RankRoutes, metrics : RankMetrics]

RankIdle == results = <<>> /\ criteria = None /\ ranked_results = <<>>
TspIdle == matrix = None /\ stop_ids = <<>> /\ optimal_order = <<>>
AnaIdle ==
    /\ route = None /\ population_data = None /\ efficiency_model = None
    /\ clock = 0 /\ analyses = <<>>

MetIdle == optimized_route = None /\ metrics = None
OptIdle == uuid = 0 /\ optimizations = <<>>
BatchIdle == routes = <<>> /\ batch_index = 0 /\ batch_results = <<>>
GapIdle == candidate_stops = <<>> /\ gap_reports = <<>>
ScoreIdle == new_optimization_score = <<>>
HeapIdle == stop_objects = <<>> /\ stop_lists = <<>> /\ input_stops = 0 /\ output_stops = 0
RemoveIdle == bottleneck_stops = <<>> /\ bottleneck_list = <<>> /\ filtered_stops = <<>>
WeightIdle == weight_map = <<>> /\ weighted_scores = <<>>
PathIdle == path_origin = 0 /\ path_destination = 0 /\ shortest_path = <<>>

InitRank ==
    /\ pc = "call"
    /\ results \in SeqsUpTo(RankPool, MaxResults)
    /\ criteria \in RankingCriteria
    /\ ranked_results = <<>>
    /\ TspIdle /\ AnaIdle /\ MetIdle /\ OptIdle /\ BatchIdle /\ GapIdle /\ PathIdle /\ ScoreIdle /\ HeapIdle /\ RemoveIdle /\ WeightIdle

\* a caller ranks the list
RankResults ==
    /\ pc = "call"
    /\ ranked_results' = rank_optimization_results(results, criteria, <<>>)
    /\ pc' = "done"
    /\ UNCHANGED <<results, criteria, notRank>>

\* a caller shuffles the list it holds and asks again
ShuffleResults ==
    /\ pc = "done"
    /\ results' \in Perms(results) \ {results}
    /\ ranked_results' = <<>>
    /\ pc' = "call"
    /\ UNCHANGED <<criteria, notRank>>

NextRank == RankResults \/ ShuffleResults

SpecRank == InitRank /\ [][NextRank]_vars

RankingScore(r) == calculate_ranking_score(r, criteria, <<>>)

\* C1: ranking any rearrangement of the list returns the same sequence as
\* ranking the list itself (no uniqueness of original_route_id assumed).
C1_ShuffleInvariant ==
    pc = "done" =>
        \A p \in Perms(results) : rank_optimization_results(p, criteria, <<>>) = ranked_results

\* C2: the ranking is a rearrangement of its input, criterion scores never
\* increase from first to last, and results of equal score stand in
\* ascending original_route_id order.
C2_RankedOrder ==
    pc = "done" =>
        /\ IsPermutationOf(ranked_results, results)
        /\ \A i, j \in 1..Len(ranked_results) :
              i < j =>
                /\ RLe(RankingScore(ranked_results[j]), RankingScore(ranked_results[i]))
                /\ RankingScore(ranked_results[i]) = RankingScore(ranked_results[j])
                      => ranked_results[i].original_route_id <= ranked_results[j].original_route_id

\* a ranking that moved results: three results, a tie between different
\* route ids given in descending id order, and a strictly better result last
C2_Witness ==
    /\ pc = "done"
    /\ Len(results) = 3
    /\ RankingScore(results[1]) = RankingScore(results[2])
    /\ results[1].original_route_id > results[2].original_route_id
    /\ RLt(RankingScore(results[1]), RankingScore(results[3]))
    /\ ranked_results = <<results[3], results[2], results[1]>>

(***************************************************************************)
(* Stop sequencing requests                                                *)
(***************************************************************************)
MaxRequest == 4

TspStopIds == <<1, 2, 3, 4>>            \* PathMatrix.stop_ids
TspDistances == {R(1), R(2)}

\* the symmetric distance matrices over the stop ids `ids' with zero diagonal
MatricesOver(ids) ==
    LET n == Len(ids)
        pairs == {p \in (1..n) \X (1..n) : p[1] < p[2]}
    IN  {[stop_ids |-> ids,
          distance_matrix |->
              [i \in 1..n |-> [j \in 1..n |->
                  IF i = j THEN R(0) ELSE IF i < j THEN f[<<i, j>>] ELSE f[<<j, i>>]]]] :
            f \in [pairs -> TspDistances]}

\* matrices that hold every stop id, and matrices that lack the last one
TspMatrices == MatricesOver(TspStopIds) \cup MatricesOver(SubSeq(TspStopIds, 1, Len(TspStopIds) - 1))

\* the matrix of brute_force_limit + 1 stops one kilometre apart on a line
LineStopIds == [i \in 1..(brute_force_limit + 1) |-> i]
LineMatrix ==
    [stop_ids |-> LineStopIds,
     distance_matrix |->
         [i \in 1..Len(LineStopIds) |-> [j \in 1..Len(LineStopIds) |-> R(Abs(i - j))]]]

\* requests of brute_force_limit + 1 stop ids: the line walked round from any
\* stop; the same with the first or the second stop again at the end (a line
\* that closes a loop); the same with one id the matrix does not hold
LineRequests ==
    LET n == Len(LineStopIds)
        Round(start) == [i \in 1..n |-> ((start + i - 2) % n) + 1]
    IN  {Round(start) : start \in 1..n}
        \cup {[Round(start) EXCEPT ![n] = start] : start \in 1..n}
        \cup {[Round(start) EXCEPT ![n] = Round(start)[2]] : start \in 1..n}
        \cup {[Round(start) EXCEPT ![k] = n + 1] : start \in 1..n, k \in 1..n}

\* matrices over the same stops, listed forwards or backwards, with uneven
\* and one-way distances, some of them zero between different stops
UnevenMatrices ==
    LET n == Len(LineStopIds)
    IN  {[stop_ids |-> ids,
          distance_matrix |->
              [i \in 1..n |-> [j \in 1..n |->
                  IF i = j THEN R(0) ELSE R(((a * i + b * j) % 5) + c)]]] :
            ids \in {LineStopIds, [i \in 1..n |-> n + 1 - i]},
            a \in 1..3, b \in 1..3, c \in 0..1}

InitTsp ==
    /\ pc = "call"
    /\ \/ /\ matrix \in TspMatrices
          /\ stop_ids \in SeqsUpTo(Range(TspStopIds), MaxRequest)
       \/ /\ matrix \in {LineMatrix} \cup UnevenMatrices
          /\ stop_ids \in LineRequests
    /\ optimal_order = <<>>
    /\ RankIdle /\ AnaIdle /\ MetIdle /\ OptIdle /\ BatchIdle /\ GapIdle /\ PathIdle /\ ScoreIdle /\ HeapIdle /\ RemoveIdle /\ WeightIdle

FindOptimalRouteOrder ==
    /\ pc = "call"
    /\ optimal_order' = find_optimal_route_order(matrix, stop_ids)
    /\ pc' = "done"
    /\ UNCHANGED <<matrix, stop_ids, notTsp>>

NextTsp == FindOptimalRouteOrder

SpecTsp == InitTsp /\ [][NextTsp]_vars

\* the sum of consecutive matrix distances along a list of stop ids
TotalDistance(m, ids) ==
    RSum([i \in 1..(Len(ids) - 1) |->
            m.distance_matrix[IndexOf(m.stop_ids, ids[i])][IndexOf(m.stop_ids, ids[i + 1])]])

\* C3: for 3 to 8 stop ids, all in the matrix, the returned order is no
\* longer than any other ordering of the same stops that keeps the first
\* stop of the input first.
C3_ExactOptimum ==
    (pc = "done" /\ Len(stop_ids) >= 3 /\ Len(stop_ids) <= 8
        /\ Range(stop_ids) \subseteq Range(matrix.stop_ids)) =>
        \A q \in Perms(stop_ids) :
            q[1] = stop_ids[1] =>
                RLe(TotalDistance(matrix, optimal_order), TotalDistance(matrix, q))

\* four distinct stops given in an order that is not optimal: the search
\* returned a strictly shorter order
C3_Witness ==
    /\ pc = "done"
    /\ Len(stop_ids) = 4
    /\ Cardinality(Range(stop_ids)) = 4
    /\ optimal_order # stop_ids
    /\ RLt(TotalDistance(matrix, optimal_order), TotalDistance(matrix, stop_ids))

\* C14: if a requested stop id is absent from the matrix, the input list is
\* returned in its original order, whatever its length
C14_AbsentIdKeepsInputOrder ==
    (pc = "done" /\ ~(Range(stop_ids) \subseteq Range(matrix.stop_ids))) =>
        optimal_order = stop_ids

\* a request of more than brute_force_limit ids, one of them absent from the
\* matrix, and out of nearest-neighbour order, came back as it was given
C14_Witness ==
    /\ pc = "done"
    /\ Len(stop_ids) > brute_force_limit
    /\ ~(Range(stop_ids) \subseteq Range(matrix.stop_ids))
    /\ stop_ids[1] # 1 /\ stop_ids[1] \in Range(matrix.stop_ids)
    /\ optimal_order = stop_ids

\* the matrix distance from stop id a to stop id b
Cell(m, a, b) == m.distance_matrix[IndexOf(m.stop_ids, a)][IndexOf(m.stop_ids, b)]

\* more than brute_force_limit stop ids were requested, all different and all
\* in the matrix
LongDistinctRequest ==
    /\ pc = "done"
    /\ Len(stop_ids) > brute_force_limit
    /\ Cardinality(Range(stop_ids)) = Len(stop_ids)
    /\ Range(stop_ids) \subseteq Range(matrix.stop_ids)

\* C22: for more than 8 distinct stop ids, all in the matrix, the returned
\* order starts with the input's first stop, and every later position holds a
\* stop not placed before whose distance from the stop one position earlier is
\* minimal among the stops not placed before
C22_GreedyNearestNeighbour ==
    LongDistinctRequest =>
        /\ Len(optimal_order) = Len(stop_ids)
        /\ optimal_order[1] = stop_ids[1]
        /\ \A k \in 2..Len(optimal_order) :
              LET placed == {optimal_order[i] : i \in 1..(k - 1)}
                  open == Range(stop_ids) \ placed
              IN  /\ optimal_order[k] \in open
                  /\ \A y \in open :
                        RLe(Cell(matrix, optimal_order[k - 1], optimal_order[k]),
                            Cell(matrix, optimal_order[k - 1], y))

\* a request of distinct ids over a matrix of uneven one-way distances came
\* back in another order, and at its second position two stops tied for nearest
C22_Witness ==
    /\ LongDistinctRequest
    /\ matrix \in UnevenMatrices
    /\ optimal_order # stop_ids
    /\ \E y \in Range(stop_ids) \ {optimal_order[1], optimal_order[2]} :
          Cell(matrix, optimal_order[1], y) = Cell(matrix, optimal_order[1], optimal_order[2])
    /\ Cell(matrix, optimal_order[1], optimal_order[2])
           # Cell(matrix, optimal_order[2], optimal_order[1])

\* the arrangements of the positions 1..n that keep position 1 first
FixedStartArrangements(n) ==
    {q \in [1..n -> 1..n] : q[1] = 1 /\ \A i, j \in 1..n : q[i] = q[j] => i = j}

\* arrangement p comes before arrangement q in lexicographic order
LexBefore(p, q) ==
    \E k \in 1..Len(p) : p[k] < q[k] /\ \A i \in 1..(k - 1) : p[i] = q[i]

\* the stop ids of a request in the arrangement p of its positions
Arranged(ids, p) == [i \in 1..Len(ids) |-> ids[p[i]]]

\* 3 to brute_force_limit stop ids were requested, all in the matrix
ExactRequest ==
    /\ pc = "done"
    /\ Len(stop_ids) >= 3 /\ Len(stop_ids) <= brute_force_limit
    /\ Range(stop_ids) \subseteq Range(matrix.stop_ids)

\* C23: among the orderings of minimal total distance that keep the first stop
\* first, the exact search returns the first in lexicographic order of input
\* positions; so an input order that attains the minimum comes back unchanged,
\* and the search applied to its own output returns that output
C23_FirstMinimumAndIdempotent ==
    ExactRequest =>
        LET arrangements == FixedStartArrangements(Len(stop_ids))
            Total(p) == TotalDistance(matrix, Arranged(stop_ids, p))
            minimal == {p \in arrangements : \A q \in arrangements : RLe(Total(p), Total(q))}
            first == CHOOSE p \in minimal : \A q \in minimal \ {p} : LexBefore(p, q)
        IN  /\ optimal_order = Arranged(stop_ids, first)
            /\ (\A q \in arrangements :
                    RLe(TotalDistance(matrix, stop_ids), Total(q))) => optimal_order = stop_ids
            /\ find_optimal_route_order(matrix, optimal_order) = optimal_order

\* four distinct stops whose input order is not minimal, with two different
\* minimal orderings: the search returned the earlier one and not the later
C23_Witness ==
    /\ ExactRequest
    /\ Len(stop_ids) = 4 /\ Cardinality(Range(stop_ids)) = 4
    /\ optimal_order # stop_ids
    /\ \E q \in FixedStartArrangements(4) :
          /\ Arranged(stop_ids, q) # optimal_order
          /\ TotalDistance(matrix, Arranged(stop_ids, q)) = TotalDistance(matrix, optimal_order)
    /\ find_optimal_route_order(matrix, optimal_order) = optimal_order

\* C18: for stop ids all present in the matrix, distinct or not, the returned
\* list is a permutation of the input list and starts with the input's first id
C18_PermutationFromFirst ==
    (pc = "done" /\ Range(stop_ids) \subseteq Range(matrix.stop_ids)) =>
        /\ IsPermutationOf(optimal_order, stop_ids)
        /\ stop_ids # <<>> => optimal_order[1] = stop_ids[1]

(***************************************************************************)
(* Shortest path requests                                                  *)
(***************************************************************************)
PathStopIds == <<1, 2, 3, 4>>           \* PathMatrix.stop_ids
PathDistances == {R(0), R(1), R(3)}     \* 0: two stops at the same place

\* the symmetric distance matrices over PathStopIds with zero diagonal
PathMatrices ==
    LET n == Len(PathStopIds)
        pairs == {p \in (1..n) \X (1..n) : p[1] < p[2]}
    IN  {[stop_ids |-> PathStopIds,
          distance_matrix |->
              [i \in 1..n |-> [j \in 1..n |->
                  IF i = j THEN R(0) ELSE IF i < j THEN f[<<i, j>>] ELSE f[<<j, i>>]]]] :
            f \in [pairs -> PathDistances]}

\* the ids of the matrix and one id it does not hold
PathRequestIds == Range(PathStopIds) \cup {Len(PathStopIds) + 1}

InitPath ==
    /\ pc = "call"
    /\ matrix \in PathMatrices
    /\ path_origin \in PathRequestIds
    /\ path_destination \in PathRequestIds
    /\ shortest_path = <<>>
    /\ stop_ids = <<>> /\ optimal_order = <<>>
    /\ RankIdle /\ AnaIdle /\ MetIdle /\ OptIdle /\ BatchIdle /\ GapIdle /\ ScoreIdle /\ HeapIdle /\ RemoveIdle /\ WeightIdle

FindShortestPath ==
    /\ pc = "call"
    /\ shortest_path' = find_shortest_path(matrix, path_origin, path_destination)
    /\ pc' = "done"
    /\ UNCHANGED <<path_origin, path_destination, notPath>>

NextPath == FindShortestPath

SpecPath == InitPath /\ [][NextPath]_vars

\* the lists of distinct stop ids of the matrix that lead from one id to
\* another over non-zero cells only
EdgePaths(m, from, to) ==
    {p \in UNION {[1..k -> Range(m.stop_ids)] : k \in 1..Len(m.stop_ids)} :
        /\ p[1] = from /\ p[Len(p)] = to
        /\ \A i, j \in 1..Len(p) : i # j => p[i] # p[j]
        /\ \A i \in 1..(Len(p) - 1) :
              m.distance_matrix[IndexOf(m.stop_ids, p[i])][IndexOf(m.stop_ids, p[i + 1])] # R(0)}

\* the returned path is one of the paths over non-zero cells and no other is shorter
IsShortestEdgePath ==
    /\ shortest_path[1] \in EdgePaths(matrix, path_origin, path_destination)
    /\ \A p \in EdgePaths(matrix, path_origin, path_destination) :
          RLe(TotalDistance(matrix, shortest_path[1]), TotalDistance(matrix, p))

DirectCell ==
    matrix.distance_matrix[IndexOf(matrix.stop_ids, path_origin)]
                          [IndexOf(matrix.stop_ids, path_destination)]

NoPathExpected ==
    \/ path_origin \notin Range(matrix.stop_ids)
    \/ path_destination \notin Range(matrix.stop_ids)
    \/ EdgePaths(matrix, path_origin, path_destination) = {}

\* C19 as stated: None when an id is absent or the destination is out of
\* reach over non-zero cells; otherwise a shortest path over non-zero cells
\* without repeated stops, never longer than the direct cell
C19_ShortestPath ==
    pc = "done" =>
        IF NoPathExpected THEN shortest_path = <<>>
        ELSE /\ shortest_path # <<>>
             /\ IsShortestEdgePath
             /\ RLe(TotalDistance(matrix, shortest_path[1]), DirectCell)

\* C19, amended: as stated, the path being never longer than the direct cell
\* whenever that cell is non-zero
C19_ShortestPathOverEdges ==
    pc = "done" =>
        IF NoPathExpected THEN shortest_path = <<>>
        ELSE /\ shortest_path # <<>>
             /\ IsShortestEdgePath
             /\ DirectCell # R(0) =>
                   RLe(TotalDistance(matrix, shortest_path[1]), DirectCell)

\* a path through two other stops was returned that is shorter than the
\* direct cell, which is an edge itself
C19_Witness ==
    /\ pc = "done"
    /\ shortest_path # <<>>
    /\ Len(shortest_path[1]) = 3
    /\ DirectCell # R(0)
    /\ RLt(TotalDistance(matrix, shortest_path[1]), DirectCell)

(***************************************************************************)
(* Route analysis requests                                                 *)
(***************************************************************************)
MaxStops == 4
MaxCalls == 2

Spacings == {0, 2, 20, 22}              \* neighbouring stops 0, 1, 10 or 11 km apart
AmenityLists == {<<>>, <<"bench", "shelter", "tactile_paving">>}
AccessPatterns == {"all", "none", "all_but_first"}
PredictionValues == {Rat(1, 4), R(1)}   \* outputs of the sigmoid unit

IsAccessible(pattern, i) ==
    CASE pattern = "all" -> TRUE
      [] pattern = "none" -> FALSE
      [] OTHER -> i # 1

\* a route of n stops, equally spaced; the last stop carries `hot' passengers
\* a day and the others `base'; of the name only the length is kept
MkRoute(id, n, spacing, base, hot, pattern, amenities, score, time) ==
    [id |-> id,
     name_length |-> 7,
     stops |-> [i \in 1..n |->
                  Stop(i, (i - 1) * spacing, amenities,
                       IF i = n THEN hot ELSE base, IsAccessible(pattern, i))],
     is_active |-> TRUE,
     optimization_score |-> score,
     estimated_travel_time |-> time]

\* a stop list of any length passes
validate_any_stops(stops) == Len(stops) >= 0

\* Route.validate_minimum_stops and the min_length of Route.stops
validate_minimum_stops(stops) == Len(stops) >= 2

AnalyzeRoutes ==
    {rt \in {MkRoute(1, n, g, b, h, a, am, R(50), t) :
                n \in 0..MaxStops, g \in Spacings, b \in {0, 1000}, h \in {1000, 3000, 10000},
                a \in AccessPatterns, am \in AmenityLists, t \in {1, 200}} :
        validate_minimum_stops(rt.stops)}

DensityPoint(pos, population) == [pos |-> pos, population |-> population]
NoPopulation == [given |-> FALSE, density_points |-> <<>>]
Population(points) == [given |-> TRUE, density_points |-> points]

AnalyzePopulations ==
    {NoPopulation,
     Population(<<>>),
     Population(<<DensityPoint(0, 0)>>),
     Population(<<DensityPoint(0, 600), DensityPoint(2, 3000), DensityPoint(4, 12000)>>),
     Population(<<DensityPoint(0, 3000), DensityPoint(1, 1000), DensityPoint(50, 1000)>>)}

\* RouteAnalyzer.__init__ / _initialize_models: a network with freshly drawn
\* weights, or no network when the initialization failed.  The weights are
\* represented by the predictions they determine, revealed as they are used.
FreshModels == {[available |-> b, predictions |-> {}] : b \in BOOLEAN}

\* efficiency_model.predict: what the analyzer in use may answer for features
Predictions(model, features) ==
    IF ~model.available THEN {<<>>}
    ELSE IF \E e \in model.predictions : e[1] = features
         THEN {<<e[2]>> : e \in {x \in model.predictions : x[1] = features}}
         ELSE {<<y>> : y \in PredictionValues}

Remember(model, features, prediction) ==
    IF prediction = <<>> THEN model
    ELSE [model EXCEPT !.predictions = @ \cup {<<features, prediction[1]>>}]

InitAnalyze ==
    /\ pc = "call"
    /\ route \in AnalyzeRoutes
    /\ population_data \in AnalyzePopulations
    /\ efficiency_model \in FreshModels
    /\ clock = 0
    /\ analyses = <<>>
    /\ RankIdle /\ TspIdle /\ MetIdle /\ OptIdle /\ BatchIdle /\ GapIdle /\ PathIdle /\ ScoreIdle /\ HeapIdle /\ RemoveIdle /\ WeightIdle

\* analyzer.analyze_route(route, population_data)
AnalyzeRoute ==
    /\ pc = "call"
    /\ \E prediction \in Predictions(efficiency_model, extract_efficiency_features(route)) :
          /\ analyses' = Append(analyses,
                                analyze_route(route, population_data, prediction, clock))
          /\ efficiency_model' =
                Remember(efficiency_model, extract_efficiency_features(route), prediction)
    /\ clock' = clock + 1
    /\ pc' = "done"
    /\ UNCHANGED <<route, population_data, notAna>>

\* the caller repeats the call on the analyzer it holds
CallAgain ==
    /\ pc = "done"
    /\ Len(analyses) < MaxCalls
    /\ pc' = "call"
    /\ UNCHANGED <<anaVars, notAna>>

\* the caller constructs a RouteAnalyzer for its next call
NewRouteAnalyzer ==
    /\ pc = "done"
    /\ Len(analyses) < MaxCalls
    /\ efficiency_model' \in FreshModels
    /\ pc' = "call"
    /\ UNCHANGED <<route, population_data, clock, analyses, notAna>>

NextAnalyze == AnalyzeRoute \/ CallAgain \/ NewRouteAnalyzer

SpecAnalyze == InitAnalyze /\ [][NextAnalyze]_vars

SameAnalysis(a, b) ==
    /\ a.efficiency_score = b.efficiency_score
    /\ a.coverage_score = b.coverage_score
    /\ a.accessibility_score = b.accessibility_score
    /\ a.passenger_demand_score = b.passenger_demand_score
    /\ a.travel_time_estimate = b.travel_time_estimate
    /\ a.bottlenecks = b.bottlenecks
    /\ a.recommendations = b.recommendations

\* C5: two analyze_route calls on the same route and population data return
\* identical scores, travel-time estimate, bottlenecks and recommendations;
\* the result depends on nothing but the inputs.
C5_Deterministic ==
    \A i, j \in 1..Len(analyses) : SameAnalysis(analyses[i], analyses[j])

InScoreRange(x) == RLe(R(0), x) /\ RLe(x, R(100))

\* C6: for every valid route and any optional population data the four
\* component scores and the weighted overall score lie in [0,100].
C6_ScoreBounds ==
    \A i \in 1..Len(analyses) :
        /\ InScoreRange(analyses[i].efficiency_score)
        /\ InScoreRange(analyses[i].coverage_score)
        /\ InScoreRange(analyses[i].accessibility_score)
        /\ InScoreRange(analyses[i].passenger_demand_score)
        /\ InScoreRange(analysis_overall_score(analyses[i]))

\* an analysis with population data in which the demand cap and the coverage
\* cap are both reached while accessibility stays strictly inside the range
C6_Witness ==
    /\ pc = "done"
    /\ population_data.given /\ population_data.density_points # <<>>
    /\ analyses[1].passenger_demand_score = R(100)
    /\ analyses[1].coverage_score = R(100)
    /\ RLt(R(0), analyses[1].accessibility_score)
    /\ RLt(analyses[1].accessibility_score, R(100))
    /\ \E i \in 1..Len(route.stops) : route.stops[i].daily_passenger_count > 1000

\* stop i carries exactly three times the average of the other stops, which is positive
TripleOfOthers(rt, i) ==
    LET others == Sum(PassengerCounts(rt.stops)) - rt.stops[i].daily_passenger_count
    IN  /\ others > 0
        /\ rt.stops[i].daily_passenger_count * (Len(rt.stops) - 1) = 3 * others

HasHighDemandEntry(a, severity) ==
    \E k \in 1..Len(a.bottlenecks) :
        a.bottlenecks[k].type = "high_demand_stop" /\ a.bottlenecks[k].severity = severity

\* C10 as stated: a stop with three times the average passenger count of the
\* other stops yields a high_demand_stop bottleneck of severity high.
C10_TripleOfOthersIsHigh ==
    \A k \in 1..Len(analyses) :
        (\E i \in 1..Len(route.stops) : TripleOfOthers(route, i)) =>
            HasHighDemandEntry(analyses[k], "high")

\* stop i carries more than three times the average of all stops of the route
AboveTripleRouteAverage(rt, i) ==
    rt.stops[i].daily_passenger_count * Len(rt.stops) > 3 * Sum(PassengerCounts(rt.stops))

\* C10 amended: a stop whose passenger count exceeds three times the average
\* over all stops of the route (itself included) yields a high_demand_stop
\* bottleneck of severity high for that stop.
C10_AboveTripleRouteAverageIsHigh ==
    \A k \in 1..Len(analyses) :
        \A i \in 1..Len(route.stops) :
            AboveTripleRouteAverage(route, i) =>
                \E b \in 1..Len(analyses[k].bottlenecks) :
                    /\ analyses[k].bottlenecks[b].type = "high_demand_stop"
                    /\ analyses[k].bottlenecks[b].stop_index = i - 1
                    /\ analyses[k].bottlenecks[b].severity = "high"

\* an analyzed four-stop route whose last stop is above three times the route
\* average while the other stops carry passengers
C10_Witness ==
    /\ pc = "done"
    /\ Len(route.stops) = 4
    /\ AboveTripleRouteAverage(route, 4)
    /\ route.stops[1].daily_passenger_count > 0
    /\ HasHighDemandEntry(analyses[1], "high")

\* the length of the route in half kilometres
HalfKilometres(rt) ==
    Sum([i \in 1..(Len(rt.stops) - 1) |-> Abs(rt.stops[i + 1].pos - rt.stops[i].pos)])

\* the population of the density points of pop within `radius' kilometres of
\* at least one stop of rt, each point counted once
PopulationWithin(rt, pop, radius) ==
    Sum([i \in 1..Len(pop.density_points) |->
           IF \E k \in 1..Len(rt.stops) :
                  RLe(calculate_distance(rt.stops[k].pos, pop.density_points[i].pos), radius)
           THEN pop.density_points[i].population ELSE 0])

TotalPopulation(pop) ==
    Sum([i \in 1..Len(pop.density_points) |-> pop.density_points[i].population])

\* C25: with density points of positive total population, the coverage score
\* is 100 times the share of the population at points within one kilometre of
\* at least one stop, each point counted once; a point 0.5 km from a stop is
\* covered
C25_CoverageWithinOneKilometre ==
    (/\ pc = "done"
     /\ population_data.given /\ population_data.density_points # <<>>
     /\ TotalPopulation(population_data) > 0)
    => analyses[Len(analyses)].coverage_score =
           RMul(R(100), Rat(PopulationWithin(route, population_data, R(1)),
                            TotalPopulation(population_data)))

estimate_route_distance(rt) ==
    IF Len(rt.stops) < 2 THEN R(0) ELSE RouteDistance(rt.stops)

\* EfficiencyMetricsCalculator._calculate_time_improvement
calculate_time_improvement(original, optimized) ==
    IF original.estimated_travel_time <= 0 THEN R(0)
    ELSE LET time_diff == original.estimated_travel_time - optimized.estimated_travel_time
             improvement == RMax(R(0), RMul(Rat(time_diff, original.estimated_travel_time), R(100)))
             with_bonus == IF RLt(R(20), improvement)
                           THEN RMul(improvement, Rat(11, 10)) ELSE improvement
         IN  RMin(with_bonus, R(50))

\* EfficiencyMetricsCalculator._calculate_distance_reduction
calculate_distance_reduction(original, optimized) ==
    LET original_distance == estimate_route_distance(original)
        optimized_distance == estimate_route_distance(optimized)
    IN  IF RLe(original_distance, R(0)) THEN R(0)
        ELSE LET distance_diff == RSub(original_distance, optimized_distance)
                 reduction == RMax(R(0), RMul(RDiv(distance_diff, original_distance), R(100)))
             IN  RMin(reduction, R(40))

\* EfficiencyMetricsCalculator._calculate_population_density_bonus
calculate_population_density_bonus(rt, pop) ==
    LET points == pop.density_points
        total_population == Sum([i \in 1..Len(points) |-> points[i].population])
        nearby_population(st) ==
            Sum([i \in 1..Len(points) |->
                   IF RLe(calculate_distance(st.pos, points[i].pos), R(1))
                   THEN points[i].population ELSE 0])
        coverage_score == Sum([i \in 1..Len(rt.stops) |-> nearby_population(rt.stops[i])])
    IN  IF points = <<>> THEN R(0)
        ELSE IF total_population <= 0 THEN R(0)
        ELSE RMin(RMul(Rat(coverage_score, total_population), R(10)), R(10))

\* EfficiencyMetricsCalculator._calculate_coverage_increase
calculate_coverage_increase(original, optimized, pop) ==
    LET original_coverage == Sum(PassengerCounts(original.stops))
        optimized_coverage == Sum(PassengerCounts(optimized.stops))
    IN  IF original_coverage <= 0 THEN R(0)
        ELSE LET coverage_diff == optimized_coverage - original_coverage
                 increase == RMax(R(0), RMul(Rat(coverage_diff, original_coverage), R(100)))
                 with_bonus == IF pop.given
                               THEN RAdd(increase, calculate_population_density_bonus(optimized, pop))
                               ELSE increase
             IN  RMin(with_bonus, R(100))

\* EfficiencyMetricsCalculator._calculate_cost_savings
calculate_cost_savings(original, optimized) ==
    LET time_factor ==
            RMax(R(0), Rat(original.estimated_travel_time - optimized.estimated_travel_time, 60))
        distance_factor ==
            RSub(estimate_route_distance(original), estimate_route_distance(optimized))
        fuel_savings == RMul(distance_factor, Rat(1, 2))
        time_savings == RMul(time_factor, R(25))
        estimated_route_cost ==
            RAdd(RMul(R(original.estimated_travel_time), Rat(1, 2)),
                 RMul(estimate_route_distance(original), Rat(3, 10)))
    IN  IF RLe(estimated_route_cost, R(0)) THEN R(0)
        ELSE LET total_savings == RAdd(fuel_savings, time_savings)
                 savings_percentage == RMul(RDiv(total_savings, estimated_route_cost), R(100))
             IN  RMin(savings_percentage, R(30))

\* EfficiencyMetricsCalculator._calculate_accessibility_improvement
calculate_accessibility_improvement(original, optimized) ==
    LET original_accessible == Count(original.stops, LAMBDA st : st.is_accessible)
        optimized_accessible == Count(optimized.stops, LAMBDA st : st.is_accessible)
    IN  IF Len(original.stops) = 0 THEN R(0)
        ELSE LET original_accessibility ==
                     RMul(Rat(original_accessible, Len(original.stops)), R(100))
                 optimized_accessibility ==
                     RMul(Rat(optimized_accessible, Len(optimized.stops)), R(100))
             IN  RMax(R(0), RSub(optimized_accessibility, original_accessibility))

\* EfficiencyMetricsCalculator._calculate_environmental_impact
calculate_environmental_impact(original, optimized) ==
    LET original_distance == estimate_route_distance(original)
        optimized_distance == estimate_route_distance(optimized)
    IN  IF RLe(original_distance, R(0)) THEN R(0)
        ELSE LET distance_impact ==
                     RMax(R(0), RMul(RDiv(RSub(original_distance, optimized_distance),
                                          original_distance), R(100)))
                 accessibility_bonus ==
                     RMul(calculate_accessibility_improvement(original, optimized), Rat(1, 10))
             IN  RMin(RAdd(distance_impact, accessibility_bonus), R(25))

\* the outcome of a call: the value it returns, or the exception it raises
Returned(value) == [raised |-> FALSE, value |-> <<value>>]
Raised == [raised |-> TRUE, value |-> <<>>]

\* the constructor of OptimizationMetrics: ge=0 on each field
OptimizationMetrics(m) ==
    IF /\ RLe(R(0), m.time_improvement)
       /\ RLe(R(0), m.distance_reduction)
       /\ RLe(R(0), m.passenger_coverage_increase)
       /\ RLe(R(0), m.cost_savings)
    THEN Returned(m) ELSE Raised

\* EfficiencyMetricsCalculator.calculate_comprehensive_metrics: the metrics it
\* returns, or the ValidationError of the OptimizationMetrics constructor
calculate_comprehensive_metrics(original, optimized, pop) ==
    LET cost_savings == calculate_cost_savings(original, optimized)
        accessibility_improvement == calculate_accessibility_improvement(original, optimized)
        environmental_impact == calculate_environmental_impact(original, optimized)
        enhanced_cost_savings ==
            RSum(<<cost_savings,
                   RMul(accessibility_improvement, Rat(1, 10)),
                   RMul(environmental_impact, Rat(1, 20))>>)
    IN  OptimizationMetrics(
            [time_improvement |-> calculate_time_improvement(original, optimized),
             distance_reduction |-> calculate_distance_reduction(original, optimized),
             passenger_coverage_increase |-> calculate_coverage_increase(original, optimized, pop),
             cost_savings |-> RMin(enhanced_cost_savings, R(100))])

(***************************************************************************)
(* Improvement metrics requests                                            *)
(***************************************************************************)
MaxMetricStops == 3

MetricRoutes ==
    {rt \in {MkRoute(1, n, g, b, h, a, <<>>, R(50), t) :
                n \in 0..MaxMetricStops, g \in {0, 2, 22}, b \in {0, 1000}, h \in {1000, 3000},
                a \in {"all", "none"}, t \in {1, 200}} :
        validate_minimum_stops(rt.stops)}

InitMetrics ==
    /\ pc = "call"
    /\ route \in MetricRoutes
    /\ optimized_route \in MetricRoutes
    /\ population_data \in AnalyzePopulations
    /\ metrics = None
    /\ efficiency_model = None /\ clock = 0 /\ analyses = <<>>
    /\ RankIdle /\ TspIdle /\ OptIdle /\ BatchIdle /\ GapIdle /\ PathIdle /\ ScoreIdle /\ HeapIdle /\ RemoveIdle /\ WeightIdle

\* calculator.calculate_comprehensive_metrics(original_route, optimized_route, population_data)
CalculateComprehensiveMetrics ==
    /\ pc = "call"
    /\ metrics' = calculate_comprehensive_metrics(route, optimized_route, population_data)
    /\ pc' = "done"
    /\ UNCHANGED <<route, optimized_route, population_data, notMet>>

NextMetrics == CalculateComprehensiveMetrics

SpecMetrics == InitMetrics /\ [][NextMetrics]_vars

\* C7: for any two valid routes and any optional population data,
\* calculate_comprehensive_metrics returns metrics whose four fields are >= 0
\* and within their caps (50, 40, 100, 100) and whose overall score is <= 100.
C7_MetricsWithinCaps ==
    pc = "done" =>
        /\ ~metrics.raised
        /\ LET m == metrics.value[1]
           IN  /\ RLe(R(0), m.time_improvement) /\ RLe(m.time_improvement, R(50))
               /\ RLe(R(0), m.distance_reduction) /\ RLe(m.distance_reduction, R(40))
               /\ RLe(R(0), m.passenger_coverage_increase)
               /\ RLe(m.passenger_coverage_increase, R(100))
               /\ RLe(R(0), m.cost_savings) /\ RLe(m.cost_savings, R(100))
               /\ RLe(get_overall_score(m), R(100))

(***************************************************************************)
(* PathMatrixCalculator: the WEIGHTED path matrix (algorithms/path_matrix.py) *)
(***************************************************************************)
AvgPassengers(stop1, stop2) ==
    Rat(stop1.daily_passenger_count + stop2.daily_passenger_count, 2)

\* PathMatrixCalculator._weighted_distance
weighted_distance(stop1, stop2) ==
    LET base_distance == calculate_distance(stop1.pos, stop2.pos)
        accessibility_factor ==
            IF stop1.is_accessible /\ stop2.is_accessible THEN Rat(95, 100) ELSE Rat(11, 10)
        avg_passengers == AvgPassengers(stop1, stop2)
        volume_factor ==
            IF RLt(R(5000), avg_passengers) THEN Rat(9, 10)
            ELSE IF RLt(avg_passengers, R(1000)) THEN Rat(115, 100)
            ELSE R(1)
        total_amenities == Len(stop1.amenities) + Len(stop2.amenities)
        amenities_factor == IF total_amenities > 4 THEN Rat(95, 100) ELSE R(1)
    IN  RMul(base_distance, RMul(RMul(accessibility_factor, volume_factor), amenities_factor))

\* PathMatrixCalculator._estimate_travel_time
path_estimate_travel_time(stop1, stop2, distance_km) ==
    LET base_speed == R(25)
        avg_passengers == AvgPassengers(stop1, stop2)
        speed == IF RLt(R(5000), avg_passengers) THEN RMul(base_speed, Rat(8, 10))
                 ELSE IF RLt(avg_passengers, R(1000)) THEN RMul(base_speed, Rat(11, 10))
                 ELSE base_speed
        time_minutes == RMul(RDiv(distance_km, speed), R(60))
    IN  RAdd(time_minutes, R(2))

\* PathMatrixCalculator._get_traffic_factor
get_traffic_factor(stop1, stop2) ==
    LET avg_passengers == AvgPassengers(stop1, stop2)
    IN  IF RLt(R(8000), avg_passengers) THEN Rat(13, 10)
        ELSE IF RLt(R(5000), avg_passengers) THEN Rat(12, 10)
        ELSE IF RLt(R(2000), avg_passengers) THEN Rat(11, 10)
        ELSE R(1)

\* PathMatrixCalculator.calculate_path_matrix with PathAlgorithm.WEIGHTED
calculate_path_matrix(stops) ==
    LET n == Len(stops)
    IN  [stop_ids |-> [i \in 1..n |-> stops[i].id],
         distance_matrix |->
            [i \in 1..n |-> [j \in 1..n |->
                IF i = j THEN R(0) ELSE weighted_distance(stops[i], stops[j])]],
         time_matrix |->
            [i \in 1..n |-> [j \in 1..n |->
                IF i = j THEN R(0)
                ELSE RMul(path_estimate_travel_time(stops[i], stops[j],
                                                    weighted_distance(stops[i], stops[j])),
                          get_traffic_factor(stops[i], stops[j]))]]]

(***************************************************************************)
(* PopulationAnalyzer (algorithms/population_analyzer.py)                  *)
(***************************************************************************)
max_stops == 20

\* PopulationAnalyzer._calculate_stop_score
calculate_stop_score(point, all_points) ==
    RAdd(R(point.population),
         RSum([i \in 1..Len(all_points) |->
                 LET distance == calculate_distance(point.pos, all_points[i].pos)
                 IN  IF all_points[i].pos # point.pos /\ RLe(distance, R(1))
                     THEN RMul(R(all_points[i].population), RMax(R(0), RSub(R(1), distance)))
                     ELSE R(0)]))

\* max(points, key=score): the first point of the highest score
BestPoint(points) ==
    LET RECURSIVE Scan(_, _, _)
        Scan(i, best, best_score) ==
            IF i > Len(points) THEN points[best]
            ELSE LET score == calculate_stop_score(points[i], points)
                 IN  IF RLt(best_score, score) THEN Scan(i + 1, i, score)
                     ELSE Scan(i + 1, best, best_score)
    IN  Scan(2, 1, calculate_stop_score(points[1], points))

\* the points of more than 2000 people
high_population_points(points) == SelectSeq(points, LAMBDA q : q.population > 2000)

\* `for lat, lon, pop in points if pop > 0': the points that become stop
\* locations when there are no more than max_stops of them
populated_points(points) == SelectSeq(points, LAMBDA q : q.population > 0)

\* a removal that takes out the points equal to the chosen one only
differs_from(q, best_point) == q # best_point

\* the points kept after a choice: those more than 500 m from the chosen one
beyond_minimum_spacing(q, best_point) ==
    RLt(Rat(1, 2), calculate_distance(q.pos, best_point.pos))

\* PopulationAnalyzer._find_optimal_stop_locations: the chosen positions
find_optimal_stop_locations(pop) ==
    LET RECURSIVE Pick(_, _, _), Choose(_, _, _, _)
        Pick(rounds, remaining_points, optimal_locations) ==
            IF rounds = 0 \/ remaining_points = <<>> THEN optimal_locations
            ELSE Choose(rounds, remaining_points, optimal_locations,
                        BestPoint(remaining_points))
        Choose(rounds, remaining_points, optimal_locations, best_point) ==
            Pick(rounds - 1,
                 SelectSeq(remaining_points, LAMBDA q : beyond_minimum_spacing(q, best_point)),
                 Append(optimal_locations, best_point.pos))
        Positions(points) == [i \in 1..Len(points) |-> points[i].pos]
    IN  IF pop.density_points = <<>> THEN <<>>
        ELSE IF Len(pop.density_points) <= max_stops
             THEN Positions(populated_points(pop.density_points))
        ELSE Pick(max_stops, pop.density_points, <<>>)

\* list.sort(key=population, reverse=True): stable, highest population first
RECURSIVE InsertByPopulation(_, _)
InsertByPopulation(sorted, gap) ==
    IF sorted = <<>> THEN <<gap>>
    ELSE IF sorted[Len(sorted)].population >= gap.population THEN Append(sorted, gap)
    ELSE Append(InsertByPopulation(SubSeq(sorted, 1, Len(sorted) - 1), gap), sorted[Len(sorted)])

RECURSIVE SortByPopulation(_)
SortByPopulation(gaps) ==
    IF gaps = <<>> THEN <<>>
    ELSE InsertByPopulation(SortByPopulation(SubSeq(gaps, 1, Len(gaps) - 1)), gaps[Len(gaps)])

\* _identify_coverage_gaps looking at the first stop only
identify_coverage_gaps_first_stop(pop, optimal_stops) ==
    LET points == pop.density_points
        is_covered(point) ==
            RLe(calculate_distance(point.pos, optimal_stops[1]), R(1))
    IN  IF points = <<>> \/ optimal_stops = <<>> THEN <<>>
        ELSE SortByPopulation(
                 FilterMap(Len(points),
                           LAMBDA i : ~is_covered(points[i]) /\ points[i].population > 500,
                           LAMBDA i : [pos |-> points[i].pos,
                                       population |-> points[i].population,
                                       severity |-> IF points[i].population > 2000
                                                    THEN "high" ELSE "medium"]))

\* PopulationAnalyzer._identify_coverage_gaps with coverage_radius 1.0
identify_coverage_gaps(pop, optimal_stops) ==
    LET points == pop.density_points
        is_covered(point) ==
            \E k \in 1..Len(optimal_stops) :
                RLe(calculate_distance(point.pos, optimal_stops[k]), R(1))
    IN  IF points = <<>> \/ optimal_stops = <<>> THEN <<>>
        ELSE SortByPopulation(
                 FilterMap(Len(points),
                           LAMBDA i : ~is_covered(points[i]) /\ points[i].population > 500,
                           LAMBDA i : [pos |-> points[i].pos,
                                       population |-> points[i].population,
                                       severity |-> IF points[i].population > 2000
                                                    THEN "high" ELSE "medium"]))

\* PopulationAnalysisResult: the fields the optimizer reads
PopulationAnalysisResult(pop, optimal_stops) ==
    [optimal_stop_locations |-> optimal_stops,
     coverage_gaps |-> identify_coverage_gaps(pop, optimal_stops)]

\* PopulationAnalyzer.analyze_population_data
analyze_population_data(pop) ==
    PopulationAnalysisResult(pop, find_optimal_stop_locations(pop))

(***************************************************************************)
(* OptimizationEngine (algorithms/optimization_engine.py)                  *)
(***************************************************************************)
\* the n-th identifier generated by uuid4: distinct from every identifier of
\* the inputs, which are positive
NewId(n) == -n

\* the field constraints of Route: name of 1..200 characters, two stops or
\* more, optimization_score in [0,100], estimated_travel_time in 1..1440
RouteValid(rt) ==
    /\ rt.name_length >= 1 /\ rt.name_length <= 200
    /\ validate_minimum_stops(rt.stops)
    /\ RLe(R(0), rt.optimization_score) /\ RLe(rt.optimization_score, R(100))
    /\ rt.estimated_travel_time >= 1 /\ rt.estimated_travel_time <= 1440

\* the constructor of Route
Route(rt) == IF RouteValid(rt) THEN Returned(rt) ELSE Raised

\* the reordering step of _generate_optimized_route
ReorderStops(stops, path_matrix) ==
    IF Len(stops) > 2
    THEN LET ids == [i \in 1..Len(stops) |-> stops[i].id]
             order == find_optimal_route_order(path_matrix, ids)
             \* stop_dict = {stop.id: stop}: the last stop of an id wins
             stop_dict(id) ==
                 stops[CHOOSE i \in 1..Len(stops) :
                           stops[i].id = id /\ \A j \in (i + 1)..Len(stops) : stops[j].id # id]
             kept == SelectSeq(order, LAMBDA id : id \in Range(ids))
         IN  [k \in 1..Len(kept) |-> stop_dict(kept[k])]
    ELSE stops

\* OptimizationEngine._add_stops_for_coverage_gaps; the new stops take the
\* identifiers after the first `made' ones
add_stops_for_coverage_gaps(current_stops, coverage_gaps, made) ==
    [k \in 1..Len(coverage_gaps) |->
        Stop(NewId(made + k), coverage_gaps[k].pos, <<"shelter">>,
             IF coverage_gaps[k].population \div 10 < 5000
             THEN coverage_gaps[k].population \div 10 ELSE 5000,
             TRUE)]

\* the bottleneck loop of _remove_bottleneck_stops, had its high-demand branch
\* scheduled the stop for removal
RECURSIVE stops_to_remove_high_demand(_)
stops_to_remove_high_demand(bottlenecks) ==
    IF bottlenecks = <<>> THEN <<>>
    ELSE LET bottleneck == Head(bottlenecks)
         IN  IF bottleneck.type = "high_demand_stop" /\ bottleneck.severity = "high"
             THEN <<bottleneck.stop_index>> \o stops_to_remove_high_demand(Tail(bottlenecks))
             ELSE stops_to_remove_high_demand(Tail(bottlenecks))

\* the bottleneck loop of _remove_bottleneck_stops: every branch is `continue'
RECURSIVE stops_to_remove(_)
stops_to_remove(bottlenecks) ==
    IF bottlenecks = <<>> THEN <<>>
    ELSE LET bottleneck == Head(bottlenecks)
         IN  IF bottleneck.type = "large_gap" /\ bottleneck.severity = "high"
             THEN stops_to_remove(Tail(bottlenecks))
             ELSE IF bottleneck.type = "high_demand_stop" /\ bottleneck.severity = "high"
             THEN stops_to_remove(Tail(bottlenecks))
             ELSE IF bottleneck.type = "accessibility_issue"
             THEN stops_to_remove(Tail(bottlenecks))
             ELSE stops_to_remove(Tail(bottlenecks))

\* OptimizationEngine._remove_bottleneck_stops
remove_bottleneck_stops(stops, bottlenecks) ==
    IF Len(stops) <= 3 THEN stops
    ELSE LET to_remove == stops_to_remove(bottlenecks)
         IN  FilterMap(Len(stops),
                       LAMBDA i : (i - 1) \notin Range(to_remove)
                                  \/ Len(stops) - Len(to_remove) < 2,
                       LAMBDA i : stops[i])

basic_amenities == <<"shelter", "seating", "lighting">>
accessibility_features == <<"wheelchair_accessible", "tactile_paving">>

RECURSIVE AppendMissing(_, _)
AppendMissing(enhanced, wanted) ==
    IF wanted = <<>> THEN enhanced
    ELSE AppendMissing(IF wanted[1] \in Range(enhanced) THEN enhanced
                       ELSE Append(enhanced, wanted[1]),
                       Tail(wanted))

\* the amenity list left as it was
keep_amenities(current_amenities) == current_amenities

\* OptimizationEngine._enhance_amenities
enhance_amenities(current_amenities) ==
    AppendMissing(AppendMissing(current_amenities, basic_amenities), accessibility_features)

\* OptimizationEngine._improve_accessibility
improve_accessibility(stops) ==
    [i \in 1..Len(stops) |->
        Stop(stops[i].id, stops[i].pos, enhance_amenities(stops[i].amenities),
             stops[i].daily_passenger_count, TRUE)]

\* OptimizationEngine._estimate_optimized_travel_time
estimate_optimized_travel_time(stops, path_matrix) ==
    IF Len(stops) < 2 THEN 10
    ELSE LET known == Range(path_matrix.stop_ids)
             segment_time(i) ==
                 IF stops[i].id \in known /\ stops[i + 1].id \in known
                 THEN path_matrix.time_matrix[IndexOf(path_matrix.stop_ids, stops[i].id)]
                                             [IndexOf(path_matrix.stop_ids, stops[i + 1].id)]
                 ELSE RAdd(RMul(RDiv(calculate_distance(stops[i].pos, stops[i + 1].pos), R(25)),
                                R(60)),
                           R(2))
             total_time == RSum([i \in 1..(Len(stops) - 1) |-> segment_time(i)])
         IN  IF RInt(total_time) > 10 THEN RInt(total_time) ELSE 10

\* OptimizationEngine._calculate_new_optimization_score
calculate_new_optimization_score(original_score, route_analysis) ==
    LET base_score == analysis_overall_score(route_analysis)
        n_bottlenecks == Len(route_analysis.bottlenecks)
        n_recommendations == Len(route_analysis.recommendations)
        bottleneck_bonus ==
            IF n_bottlenecks = 0 THEN 0
            ELSE IF n_bottlenecks * 2 < 10 THEN n_bottlenecks * 2 ELSE 10
        recommendation_bonus ==
            IF n_recommendations = 0 THEN 0
            ELSE IF n_recommendations * 3 < 15 THEN n_recommendations * 3 ELSE 15
        accessibility_bonus == IF RLt(route_analysis.accessibility_score, R(80)) THEN 10 ELSE 0
        optimization_bonus == bottleneck_bonus + recommendation_bonus + accessibility_bonus
        new_score == RMin(R(100), RAdd(base_score, R(optimization_bonus)))
    IN  RMax(new_score, RAdd(original_score, R(5)))

\* OptimizationEngine._calculate_optimization_metrics
calculate_optimization_metrics(original_route, optimized, route_analysis) ==
    LET time_diff == original_route.estimated_travel_time - optimized.estimated_travel_time
        time_improvement ==
            IF original_route.estimated_travel_time > 0
            THEN RMax(R(0), RMul(Rat(time_diff, original_route.estimated_travel_time), R(100)))
            ELSE R(0)
        distance_reduction == R(5)
        original_coverage == Sum(PassengerCounts(original_route.stops))
        optimized_coverage == Sum(PassengerCounts(optimized.stops))
        coverage_increase ==
            IF original_coverage > 0
            THEN RMax(R(0), RMul(Rat(optimized_coverage - original_coverage, original_coverage),
                                 R(100)))
            ELSE R(0)
        base_cost_savings == RDiv(RAdd(time_improvement, distance_reduction), R(2))
        accessibility_bonus == IF RLt(R(80), route_analysis.accessibility_score) THEN R(5) ELSE R(0)
    IN  OptimizationMetrics([time_improvement |-> time_improvement,
                             distance_reduction |-> distance_reduction,
                             passenger_coverage_increase |-> coverage_increase,
                             cost_savings |-> RAdd(base_cost_savings, accessibility_bonus)])

\* steps 2 to 4 of _generate_optimized_route: the new stops appended, the
\* bottleneck stops removed, the stops improved
OptimizedStops(reordered, new_stops, route_analysis) ==
    improve_accessibility(
        IF route_analysis.bottlenecks # <<>>
        THEN remove_bottleneck_stops(reordered \o new_stops, route_analysis.bottlenecks)
        ELSE reordered \o new_stops)

\* steps 5 and 6 of _generate_optimized_route and the Route it constructs
OptimizedRoute(original_route, route_analysis, path_matrix, optimized_stops, id) ==
    Route([id |-> id,
           name_length |-> original_route.name_length + 12,      \* name + " (Optimized)"
           stops |-> optimized_stops,
           is_active |-> TRUE,
           optimization_score |->
               calculate_new_optimization_score(original_route.optimization_score,
                                                route_analysis),
           estimated_travel_time |->
               estimate_optimized_travel_time(optimized_stops, path_matrix)])

\* coverage_gaps[:2] of the population analysis, if there is one
GapsToFill(population_analysis) ==
    IF population_analysis = <<>> THEN <<>>
    ELSE SubSeq(population_analysis[1].coverage_gaps, 1,
                IF Len(population_analysis[1].coverage_gaps) < 2
                THEN Len(population_analysis[1].coverage_gaps) ELSE 2)

\* OptimizationEngine._generate_optimized_route: the optimized Route, or the
\* ValidationError of the Route constructor
generate_optimized_route(original_route, route_analysis, population_analysis, path_matrix, made) ==
    LET Generate(reordered, gaps) ==
            OptimizedRoute(original_route, route_analysis, path_matrix,
                           OptimizedStops(reordered,
                                          add_stops_for_coverage_gaps(reordered, gaps, made),
                                          route_analysis),
                           NewId(made + Len(gaps) + 1))
    IN  Generate(ReorderStops(original_route.stops, path_matrix), GapsToFill(population_analysis))

\* the constructor of GeoBounds, on the latitudes; the validator of north
\* runs before south is known and so compares nothing
GeoBounds(north, south) ==
    IF /\ RLe(R(-90), north) /\ RLe(north, R(90))
       /\ RLe(R(-90), south) /\ RLe(south, R(90))
    THEN Returned([north |-> north, south |-> south]) ELSE Raised

\* OptimizationEngine._create_default_population_data
create_default_population_data(rt) ==
    LET Data(bounds, points) ==
            IF bounds.raised THEN Raised
            ELSE Returned([given |-> TRUE, density_points |-> points,
                           coordinates |-> bounds.value[1]])
    IN  IF rt.stops = <<>>
        THEN Data(GeoBounds(Rat(1, 10), Rat(-1, 10)), <<>>)
        ELSE Data(GeoBounds(RAdd(Latitude(SeqMax(StopPositions(rt))), Rat(1, 100)),
                            RSub(Latitude(SeqMin(StopPositions(rt))), Rat(1, 100))),
                  [i \in 1..Len(rt.stops) |->
                      DensityPoint(rt.stops[i].pos, rt.stops[i].daily_passenger_count * 10)])

\* the OptimizationResult optimize_route constructs; the metrics and the
\* population data are outcomes
OptimizationResult(id, original_route, optimized, m, used, now) ==
    IF m.raised \/ used.raised THEN Raised
    ELSE Returned([id |-> id,
                   original_route_id |-> original_route.id,
                   optimized_route |-> optimized,
                   metrics |-> m.value[1],
                   population_data |-> used.value[1],
                   generated_at |-> now + 1])

\* OptimizationEngine.optimize_route: the OptimizationResult, or the exception
\* it re-raises; `made' identifiers were generated before the call, and the
\* call generates those of the new stops, of the optimized route, of the
\* default population data and of the result, in this order
optimize_route(rt, pop, prediction, now, made) ==
    LET Step56(route_analysis, generated) ==
            IF generated.raised THEN Raised
            ELSE OptimizationResult(
                     generated.value[1].id - (IF pop.given THEN 1 ELSE 2),
                     rt, generated.value[1],
                     calculate_optimization_metrics(rt, generated.value[1], route_analysis),
                     IF pop.given THEN Returned(pop) ELSE create_default_population_data(rt),
                     now)
        Step234(route_analysis) ==
            Step56(route_analysis,
                   generate_optimized_route(
                       rt, route_analysis,
                       IF pop.given THEN <<analyze_population_data(pop)>> ELSE <<>>,
                       calculate_path_matrix(rt.stops), made))
    IN  Step234(analyze_route(rt, pop, prediction, now))

(***************************************************************************)
(* Route optimization requests                                             *)
(***************************************************************************)
\* rt with the last stop carrying the identifier of the first (a loop line)
Loop(rt) ==
    [rt EXCEPT !.stops =
        [i \in 1..Len(rt.stops) |->
            IF i = Len(rt.stops) THEN [rt.stops[i] EXCEPT !.id = rt.stops[1].id]
            ELSE rt.stops[i]]]

Named(rt, length) == [rt EXCEPT !.name_length = length]

Scored(rt, score) == [rt EXCEPT !.optimization_score = score]

ShortRoutes ==
    {MkRoute(1, n, g, b, h, a, am, R(50), t) :
        n \in 0..MaxStops, g \in {0, 2, 22}, b \in {0, 1000}, h \in {1000, 10000},
        a \in AccessPatterns, am \in AmenityLists, t \in {1, 200}}

\* routes past the enumeration limit, ordered by the nearest-neighbour rule
LongRoutes ==
    {MkRoute(1, brute_force_limit + 1, g, 1000, h, a, <<>>, R(50), 200) :
        g \in {0, 2}, h \in {1000, 10000}, a \in {"all", "all_but_first"}}

\* routes with a name near the length limit or a score near the top
EdgeRoutes ==
    UNION {{Named(rt, 195), Scored(rt, R(98))} :
              rt \in {MkRoute(1, n, 2, 1000, h, a, <<>>, R(50), 200) :
                          n \in 0..MaxStops, h \in {1000, 10000}, a \in AccessPatterns}}

\* rt with the last stop carrying the identifier of the second (a line that
\* ends where it passed before)
Lollipop(rt) ==
    [rt EXCEPT !.stops =
        [i \in 1..Len(rt.stops) |->
            IF i = Len(rt.stops) THEN [rt.stops[i] EXCEPT !.id = rt.stops[2].id]
            ELSE rt.stops[i]]]

OptimizeRoutes ==
    {rt \in UNION {{base, Loop(base)} : base \in ShortRoutes \cup LongRoutes \cup EdgeRoutes} :
        RouteValid(rt)}
    \cup {Lollipop(base) : base \in LongRoutes}

\* more density points than max_stops, 1.5 km apart: the two least populated
\* are left without a stop location
SparsePopulation ==
    Population([i \in 1..(max_stops + 2) |->
                   DensityPoint(3 * (i - 1),
                                IF i = 1 THEN 600 ELSE IF i = 2 THEN 2100 ELSE 3000 + 10 * i)])

MaxPoints == 2
MaxCandidates == 3

\* exactly max_stops density points 1.5 km apart, every third one empty and
\* every third one of 600 people
FullPopulation ==
    Population([i \in 1..max_stops |->
                   DensityPoint(3 * (i - 1),
                                IF i % 3 = 0 THEN 0 ELSE IF i % 3 = 1 THEN 600 ELSE 3000 + i)])

GapPositions == {0, 1, 4}
GapPoints == {DensityPoint(pos, population) : pos \in GapPositions, population \in {0, 600, 10000}}
\* max_stops + 2 density points in clusters: positions repeat and neighbour
\* each other at half a kilometre, populations run from 0 to 2100
ClusteredPopulations ==
    {Population([i \in 1..(max_stops + 2) |->
                    DensityPoint((i * step) % span, ((i * turn) % 4) * 700)]) :
        step \in {1, 2, 3}, span \in {1, 5, 8, 30}, turn \in {1, 3}}

GapPopulations ==
    {Population(points) : points \in SeqsUpTo(GapPoints, MaxPoints)}
    \cup {SparsePopulation, FullPopulation} \cup ClusteredPopulations

\* the routes optimized against the sparse population
GapRoutes ==
    {rt \in OptimizeRoutes :
        /\ Len(rt.stops) \in {2, MaxStops}
        /\ rt.stops[1].pos # rt.stops[2].pos
        /\ rt.stops[1].id # rt.stops[Len(rt.stops)].id
        /\ rt.stops[1].amenities # <<>>
        /\ rt.estimated_travel_time = 200}

\* a route of two stops 10 km apart, far from most density points
RemoteRoute == MkRoute(1, 2, 20, 1000, 1000, "all", <<"bench", "shelter", "tactile_paving">>, R(50), 200)

OptimizeRequests ==
    (OptimizeRoutes \X AnalyzePopulations) \cup (GapRoutes \X {SparsePopulation})
    \cup ({RemoteRoute} \X (GapPopulations \ ClusteredPopulations))

InitOptimize ==
    /\ pc = "call"
    /\ \E request \in OptimizeRequests :
          route = request[1] /\ population_data = request[2]
    /\ efficiency_model \in FreshModels
    /\ clock = 0
    /\ uuid = 0
    /\ optimizations = <<>>
    /\ analyses = <<>>
    /\ RankIdle /\ TspIdle /\ MetIdle /\ BatchIdle /\ GapIdle /\ PathIdle /\ ScoreIdle /\ HeapIdle /\ RemoveIdle /\ WeightIdle

\* engine.optimize_route(route, population_data)
OptimizeRoute ==
    /\ pc = "call"
    /\ \E prediction \in Predictions(efficiency_model, extract_efficiency_features(route)) :
          /\ optimizations' =
                Append(optimizations,
                       optimize_route(route, population_data, prediction, clock, uuid))
          /\ efficiency_model' =
                Remember(efficiency_model, extract_efficiency_features(route), prediction)
    /\ clock' = clock + 2
    /\ uuid' = IF optimizations'[Len(optimizations')].raised THEN uuid
               ELSE -optimizations'[Len(optimizations')].value[1].id
    /\ pc' = "done"
    /\ UNCHANGED <<route, population_data, notOpt>>

NextOptimize == OptimizeRoute

SpecOptimize == InitOptimize /\ [][NextOptimize]_vars

ReturnedOptimizations ==
    {k \in 1..Len(optimizations) : ~optimizations[k].raised}

\* C4: whenever optimize_route returns a result, the optimized route in it
\* has at least 2 stops.
C4_AtLeastTwoStops ==
    \A k \in ReturnedOptimizations :
        Len(optimizations[k].value[1].optimized_route.stops) >= 2

\* a returned result for a route with bottlenecks and a population with
\* coverage gaps: the optimized route carries the two new stops
C4_Witness ==
    /\ pc = "done"
    /\ ReturnedOptimizations # {}
    /\ identify_bottlenecks(route) # <<>>
    /\ population_data.given
    /\ Len(optimizations[1].value[1].optimized_route.stops) = Len(route.stops) + 2

standard_amenities ==
    {"shelter", "seating", "lighting", "wheelchair_accessible", "tactile_paving"}

\* C9: in every route optimize_route returns, every stop is accessible and
\* its amenity list holds the five standard tags and every amenity the stop
\* had in the input route.
C9_AccessibleAndEquipped ==
    \A k \in ReturnedOptimizations :
        LET stops == optimizations[k].value[1].optimized_route.stops
        IN  \A i \in 1..Len(stops) :
                /\ stops[i].is_accessible
                /\ standard_amenities \subseteq Range(stops[i].amenities)
                /\ \A j \in 1..Len(route.stops) :
                       (route.stops[j].id = stops[i].id /\ route.stops[j].pos = stops[i].pos) =>
                           Range(route.stops[j].amenities) \subseteq Range(stops[i].amenities)

\* a returned result for a route whose stops were inaccessible and had a
\* bench, with new stops added for coverage gaps
C9_Witness ==
    /\ pc = "done"
    /\ ReturnedOptimizations # {}
    /\ \A j \in 1..Len(route.stops) :
           ~route.stops[j].is_accessible /\ "bench" \in Range(route.stops[j].amenities)
    /\ \E i \in 1..Len(optimizations[1].value[1].optimized_route.stops) :
           optimizations[1].value[1].optimized_route.stops[i].id < 0

\* C17: for every valid Route, with or without population data,
\* optimize_route returns an OptimizationResult instead of raising
C17_AlwaysReturns ==
    \A k \in 1..Len(optimizations) : ~optimizations[k].raised

StopIds(stops) == [i \in 1..Len(stops) |-> stops[i].id]

\* the coverage gaps the optimizer is to fill for the request
ExpectedGaps ==
    IF population_data.given
    THEN LET gaps == analyze_population_data(population_data).coverage_gaps
         IN  SubSeq(gaps, 1, IF Len(gaps) < 2 THEN Len(gaps) ELSE 2)
    ELSE <<>>

\* the stop list is the original stops, in sequencer order from the original
\* first stop, and then one new stop for each of the gaps
KeepsStopsAndAppends(stops, gaps) ==
    LET n == Len(route.stops)
        kept == SubSeq(stops, 1, n)
    IN  /\ Len(stops) = n + Len(gaps)
        /\ IsPermutationOf(StopIds(kept), StopIds(route.stops))
        /\ kept[1].id = route.stops[1].id
        /\ StopIds(kept) =
              IF n > 2 THEN find_optimal_route_order(calculate_path_matrix(route.stops),
                                                     StopIds(route.stops))
              ELSE StopIds(route.stops)
        /\ \A j \in 1..Len(gaps) :
              /\ stops[n + j].id \notin Range(StopIds(route.stops))
              /\ stops[n + j].pos = gaps[j].pos
              /\ stops[n + j].daily_passenger_count =
                    IF gaps[j].population \div 10 < 5000
                    THEN gaps[j].population \div 10 ELSE 5000

\* the stops of the last optimized route that are not stops of the request
AppendedStops ==
    LET stops == optimizations[Len(optimizations)].value[1].optimized_route.stops
    IN  SelectSeq(stops, LAMBDA st : st.id \notin Range(StopIds(route.stops)))

\* C28: for population data of at most max_stops density points the analysis
\* reports no coverage gap, wherever the points lie and whatever they hold;
\* so the optimizer appends a stop only for data of more than max_stops points
C28_NoGapsUpToMaxStops ==
    pc = "done" =>
        /\ (population_data.given /\ Len(population_data.density_points) <= max_stops)
              => analyze_population_data(population_data).coverage_gaps = <<>>
        /\ (~optimizations[Len(optimizations)].raised /\ AppendedStops # <<>>)
              => /\ population_data.given
                 /\ Len(population_data.density_points) > max_stops

\* an optimization against three density points, one of them of 1000 people
\* 25 km from every stop of the route: nothing was appended
C28_Witness ==
    /\ pc = "done"
    /\ ~optimizations[Len(optimizations)].raised
    /\ population_data.given
    /\ Len(population_data.density_points) = 3
    /\ \E i \in 1..3 :
          /\ population_data.density_points[i].population > 500
          /\ \A k \in 1..Len(route.stops) :
                RLt(R(1), calculate_distance(population_data.density_points[i].pos,
                                             route.stops[k].pos))
    /\ AppendedStops = <<>>

\* C20: the optimized route holds the original stops (same ids, none dropped
\* or duplicated) in sequencer order from the original first stop, then the
\* k = min(2, number of coverage gaps) new stops, none without population
\* data, each with passenger count min(population // 10, 5000)
C20_OriginalStopsThenGapStops ==
    \A k \in ReturnedOptimizations :
        KeepsStopsAndAppends(optimizations[k].value[1].optimized_route.stops, ExpectedGaps)

(***************************************************************************)
(* Route optimization requests, with the stops as objects in memory        *)
(*                                                                         *)
(* A memory is [objects, lists, at]: the BusStop objects by address, the   *)
(* list objects by address (each a sequence of stop addresses), and the    *)
(* address of the list the local name optimized_stops is bound to.         *)
(***************************************************************************)
\* the stops a list holds
StopsAt(objects, lists, l) == [i \in 1..Len(lists[l]) |-> objects[lists[l][i]]]

\* the Route argument as it stands in memory
StopsRoute(rt, objects, lists, l) == [rt EXCEPT !.stops = StopsAt(objects, lists, l)]

\* optimized_stops bound to route.stops itself
Aliased(objects, lists, l) == [objects |-> objects, lists |-> lists, at |-> l]

\* optimized_stops = original_route.stops.copy(): a new list of the same objects
Copied(objects, lists, l) ==
    [objects |-> objects, lists |-> Append(lists, lists[l]), at |-> Len(lists) + 1]

\* step 1 of _generate_optimized_route: a new list, built from stop_dict
\* (the last object of an id wins), bound to optimized_stops
Reordered(mem, path_matrix) ==
    LET held == mem.lists[mem.at]
        ids == [i \in 1..Len(held) |-> mem.objects[held[i]].id]
        stop_dict(id) ==
            held[CHOOSE i \in 1..Len(held) :
                     ids[i] = id /\ \A j \in (i + 1)..Len(held) : ids[j] # id]
        Rebuilt(kept) ==
            [mem EXCEPT !.lists = Append(@, [k \in 1..Len(kept) |-> stop_dict(kept[k])]),
                        !.at = Len(mem.lists) + 1]
    IN  IF Len(held) > 2
        THEN Rebuilt(SelectSeq(find_optimal_route_order(path_matrix, ids),
                               LAMBDA id : id \in Range(ids)))
        ELSE mem

\* step 2: new BusStop objects, and optimized_stops.extend(new_stops) on the
\* list optimized_stops is bound to
Extended(mem, new_stops) ==
    IF new_stops = <<>> THEN mem
    ELSE [mem EXCEPT !.objects = @ \o new_stops,
                     !.lists[mem.at] =
                         @ \o [k \in 1..Len(new_stops) |-> Len(mem.objects) + k]]

\* step 3: _remove_bottleneck_stops returns the list it was given, or a new
\* list of the same objects
Filtered(mem, bottlenecks) ==
    IF bottlenecks = <<>> \/ Len(mem.lists[mem.at]) <= 3 THEN mem
    ELSE [mem EXCEPT !.lists = Append(@, mem.lists[mem.at]), !.at = Len(mem.lists) + 1]

\* step 4: _improve_accessibility builds a new BusStop for every stop, in a new list
Improved(mem) ==
    [mem EXCEPT !.objects = @ \o improve_accessibility(StopsAt(mem.objects, mem.lists, mem.at)),
                !.lists = Append(@, [k \in 1..Len(mem.lists[mem.at]) |-> Len(mem.objects) + k]),
                !.at = Len(mem.lists) + 1]

\* Route(stops=optimized_stops): the model keeps the objects in a list of its own
Constructed(mem) ==
    [mem EXCEPT !.lists = Append(@, mem.lists[mem.at]), !.at = Len(mem.lists) + 1]

\* _generate_optimized_route on the memory
GenerateInMemory(objects, lists, l, bottlenecks, population_analysis, path_matrix, made) ==
    LET Step2(mem, gaps) ==
            Extended(mem, add_stops_for_coverage_gaps(
                              StopsAt(mem.objects, mem.lists, mem.at), gaps, made))
    IN  Constructed(Improved(Filtered(
            Step2(Reordered(Copied(objects, lists, l), path_matrix),
                  GapsToFill(population_analysis)),
            bottlenecks)))

FrameRequests ==
    {request \in OptimizeRequests :
        /\ Len(request[1].stops) <= MaxStops
        /\ request[1].estimated_travel_time = 200}

InitFrame ==
    /\ pc = "call"
    /\ \E request \in FrameRequests :
          route = request[1] /\ population_data = request[2]
    /\ efficiency_model \in FreshModels
    /\ clock = 0
    /\ uuid = 0
    /\ optimizations = <<>>
    /\ analyses = <<>>
    /\ stop_objects = route.stops
    /\ stop_lists = <<[i \in 1..Len(route.stops) |-> i]>>
    /\ input_stops = 1
    /\ output_stops = 0
    /\ RankIdle /\ TspIdle /\ MetIdle /\ BatchIdle /\ GapIdle /\ PathIdle /\ ScoreIdle /\ RemoveIdle /\ WeightIdle

\* engine.optimize_route(route, population_data), the stops followed in memory
OptimizeRouteInMemory ==
    /\ pc = "call"
    /\ \E prediction \in Predictions(efficiency_model, extract_efficiency_features(route)) :
          /\ optimizations' =
                Append(optimizations,
                       optimize_route(route, population_data, prediction, clock, uuid))
          /\ efficiency_model' =
                Remember(efficiency_model, extract_efficiency_features(route), prediction)
    /\ \E mem \in {GenerateInMemory(
                       stop_objects, stop_lists, input_stops,
                       identify_bottlenecks(StopsRoute(route, stop_objects, stop_lists, input_stops)),
                       IF population_data.given
                       THEN <<analyze_population_data(population_data)>> ELSE <<>>,
                       calculate_path_matrix(StopsAt(stop_objects, stop_lists, input_stops)),
                       uuid)} :
          /\ stop_objects' = mem.objects
          /\ stop_lists' = mem.lists
          /\ output_stops' = IF optimizations'[Len(optimizations')].raised THEN 0 ELSE mem.at
    /\ clock' = clock + 2
    /\ uuid' = IF optimizations'[Len(optimizations')].raised THEN uuid
               ELSE -optimizations'[Len(optimizations')].value[1].id
    /\ pc' = "done"
    /\ UNCHANGED <<route, population_data, input_stops, notHeap>>

NextFrame == OptimizeRouteInMemory

SpecFrame == InitFrame /\ [][NextFrame]_vars

\* the stop objects of the Route argument: those route.stops held before the call
InputObjects == 1..Len(route.stops)

\* C15: after optimize_route the input Route has the same stop sequence and
\* every input stop its accessibility flag, amenity list and passenger count;
\* the optimized route has a stop list and stop objects of its own
C15_InputsUnchanged ==
    pc = "done" =>
        /\ stop_lists[input_stops] = [i \in 1..Len(route.stops) |-> i]
        /\ \A a \in InputObjects : stop_objects[a] = route.stops[a]
        /\ output_stops # 0 =>
              /\ output_stops # input_stops
              /\ Range(stop_lists[output_stops]) \cap InputObjects = {}
              /\ StopsAt(stop_objects, stop_lists, output_stops) =
                    optimizations[1].value[1].optimized_route.stops

\* a route of two stops was optimized against a population with coverage
\* gaps: new stops were appended to a list, and not to the input's
C15_Witness ==
    /\ pc = "done"
    /\ output_stops # 0
    /\ Len(route.stops) = 2
    /\ Len(stop_lists[output_stops]) = 4
    /\ Len(stop_lists[input_stops]) = 2

(***************************************************************************)
(* Score recomputation requests                                            *)
(***************************************************************************)
OriginalScores == {R(0), R(50), R(95), R(96), R(100)}

ScoreRoutes ==
    {MkRoute(1, n, g, 1000, h, a, am, score, 200) :
        n \in {2, 3}, g \in {2, 22}, h \in {1000, 10000},
        a \in AccessPatterns, am \in AmenityLists, score \in OriginalScores}

InitScore ==
    /\ pc = "call"
    /\ route \in ScoreRoutes
    /\ population_data \in AnalyzePopulations
    /\ efficiency_model \in FreshModels
    /\ clock = 0
    /\ analyses = <<>>
    /\ new_optimization_score = <<>>
    /\ RankIdle /\ TspIdle /\ MetIdle /\ OptIdle /\ BatchIdle /\ GapIdle /\ PathIdle /\ HeapIdle /\ RemoveIdle /\ WeightIdle

\* step 6 of _generate_optimized_route, on the analysis of the route
CalculateNewOptimizationScore ==
    /\ pc = "done"
    /\ new_optimization_score' =
          <<calculate_new_optimization_score(route.optimization_score, analyses[1])>>
    /\ pc' = "scored"
    /\ UNCHANGED <<anaVars, notScore>>

NextScore == AnalyzeRoute \/ CalculateNewOptimizationScore

SpecScore == InitScore /\ [][NextScore]_vars

\* C16: for every original score in [0,100] and every analysis the
\* recomputed score is at most 100 and at least the original score plus 5
C16_ScoreCappedAndImproved ==
    pc = "scored" =>
        /\ RLe(new_optimization_score[1], R(100))
        /\ RLe(RAdd(route.optimization_score, R(5)), new_optimization_score[1])

(***************************************************************************)
(* Batch requests (batch_optimize_routes, batch_analyze_routes)            *)
(***************************************************************************)
MaxBatch == 3

\* two routes optimize_route accepts, one whose score the optimizer pushes
\* past 100 and one whose optimized name passes 200 characters
BatchRoutes ==
    {MkRoute(1, 2, 2, 1000, 3000, "none", <<>>, R(50), 200),
     MkRoute(2, 3, 22, 0, 1000, "all", <<"bench", "shelter", "tactile_paving">>, R(50), 1),
     Scored(MkRoute(3, 3, 2, 1000, 1000, "all_but_first", <<>>, R(50), 200), R(98)),
     Named(MkRoute(4, 2, 2, 1000, 10000, "all", <<>>, R(50), 200), 195)}

BatchPopulations ==
    {NoPopulation,
     Population(<<DensityPoint(0, 600), DensityPoint(2, 3000), DensityPoint(4, 12000)>>)}

InitBatch ==
    /\ pc \in {"batch_analyze", "batch_optimize"}
    /\ routes \in SeqsUpTo(BatchRoutes, MaxBatch)
    /\ population_data \in BatchPopulations
    /\ efficiency_model \in FreshModels
    /\ batch_index = 0
    /\ batch_results = <<>>
    /\ route = None /\ clock = 0 /\ analyses = <<>>
    /\ uuid = 0 /\ optimizations = <<>>
    /\ RankIdle /\ TspIdle /\ MetIdle /\ GapIdle /\ PathIdle /\ ScoreIdle /\ HeapIdle /\ RemoveIdle /\ WeightIdle

\* the try block of analyze_route: it re-raises what its steps raise, and
\* none of them raises for a Route
analyze_route_outcome(rt, pop, prediction, now) ==
    Returned(analyze_route(rt, pop, prediction, now))

\* the body of both batch loops with a failure discarding the results
\* collected before it
collect_restart(rs, outcome) ==
    IF outcome.raised THEN <<>> ELSE Append(rs, outcome.value[1])

\* the body of both batch loops: results.append(result), or the except
\* clause and its continue
collect(rs, outcome) ==
    IF outcome.raised THEN rs ELSE Append(rs, outcome.value[1])

\* one iteration of the loop of batch_analyze_routes
BatchAnalyzeStep ==
    /\ pc = "batch_analyze"
    /\ batch_index < Len(routes)
    /\ LET rt == routes[batch_index + 1]
       IN  \E prediction \in Predictions(efficiency_model, extract_efficiency_features(rt)) :
              /\ batch_results' =
                    collect(batch_results,
                            analyze_route_outcome(rt, population_data, prediction, clock))
              /\ efficiency_model' =
                    Remember(efficiency_model, extract_efficiency_features(rt), prediction)
    /\ clock' = clock + 1
    /\ batch_index' = batch_index + 1
    /\ UNCHANGED <<pc, routes, route, population_data, analyses, optVars, notBatch>>

\* one iteration of the loop of batch_optimize_routes
BatchOptimizeStep ==
    /\ pc = "batch_optimize"
    /\ batch_index < Len(routes)
    /\ LET rt == routes[batch_index + 1]
       IN  \E prediction \in Predictions(efficiency_model, extract_efficiency_features(rt)) :
              /\ batch_results' =
                    collect(batch_results,
                            optimize_route(rt, population_data, prediction, clock, uuid))
              /\ efficiency_model' =
                    Remember(efficiency_model, extract_efficiency_features(rt), prediction)
    /\ uuid' = IF Len(batch_results') > Len(batch_results)
               THEN -batch_results'[Len(batch_results')].id
               ELSE uuid
    /\ clock' = clock + 2
    /\ batch_index' = batch_index + 1
    /\ UNCHANGED <<pc, routes, route, population_data, analyses, optimizations, notBatch>>

\* the loop is over: return results
BatchReturn ==
    /\ pc \in {"batch_analyze", "batch_optimize"}
    /\ batch_index = Len(routes)
    /\ pc' = IF pc = "batch_analyze" THEN "analyzed" ELSE "optimized"
    /\ UNCHANGED <<batchVars, anaVars, optVars, notBatch>>

NextBatch == BatchAnalyzeStep \/ BatchOptimizeStep \/ BatchReturn

SpecBatch == InitBatch /\ [][NextBatch]_vars

\* whether optimize_route raises for rt: the Route and GeoBounds checks that
\* decide it do not depend on the prediction, the clock or the identifiers
OptimizeFails(rt) == optimize_route(rt, population_data, <<>>, 0, 0).raised

\* the identifiers of the input routes taken through position n, in input
\* order, without those for which the single-route operation fails
Succeeded(n) ==
    LET kept == SetToSortedSeq({k \in 1..n :
                                   pc \in {"batch_analyze", "analyzed"} \/ ~OptimizeFails(routes[k])})
    IN  [j \in 1..Len(kept) |-> routes[kept[j]].id]

ResultRouteIds ==
    [k \in 1..Len(batch_results) |->
        IF pc \in {"batch_analyze", "analyzed"} THEN batch_results[k].route_id
        ELSE batch_results[k].original_route_id]

\* C8: the batch loops take the routes in input order; a route whose
\* single-route operation fails is skipped and the loop goes on, so the
\* returned list holds exactly the results of the routes that succeeded, in
\* input order, each referring to an input route, and is no longer than the
\* input.
C8_BatchIsolatesFailures ==
    /\ ResultRouteIds = Succeeded(batch_index)
    /\ Len(batch_results) <= Len(routes)
    /\ \A k \in 1..Len(batch_results) : \E j \in 1..Len(routes) : ResultRouteIds[k] = routes[j].id
    /\ batch_index < Len(routes) => pc \in {"batch_analyze", "batch_optimize"}

\* batch_optimize_routes has returned for three routes of which the second
\* failed: the results of the first and the third, in this order
C8_Witness ==
    /\ pc = "optimized"
    /\ Len(routes) = 3
    /\ ~OptimizeFails(routes[1]) /\ OptimizeFails(routes[2]) /\ ~OptimizeFails(routes[3])
    /\ routes[1].id # routes[3].id
    /\ Len(batch_results) = 2

(***************************************************************************)
(* Population analysis requests                                            *)
(***************************************************************************)
InitGaps ==
    /\ pc = "call"
    /\ population_data \in GapPopulations
    /\ candidate_stops = <<>>
    /\ gap_reports = <<>>
    /\ route = None /\ efficiency_model = None /\ clock = 0 /\ analyses = <<>>
    /\ RankIdle /\ TspIdle /\ MetIdle /\ OptIdle /\ BatchIdle /\ PathIdle /\ ScoreIdle /\ HeapIdle /\ RemoveIdle /\ WeightIdle

\* a caller asks for the analysis of the population data
AnalyzePopulationData ==
    /\ pc = "call"
    /\ \E result \in {analyze_population_data(population_data)} :
          /\ candidate_stops' = result.optimal_stop_locations
          /\ gap_reports' = <<result.coverage_gaps>>
    /\ pc' = "analyzed"
    /\ UNCHANGED notGap

\* a caller asks for the coverage gaps of a stop list of its own
IdentifyCoverageGaps ==
    /\ pc = "call"
    /\ candidate_stops' \in SeqsUpTo(GapPositions, MaxCandidates - 1)
    /\ gap_reports' = <<identify_coverage_gaps(population_data, candidate_stops')>>
    /\ pc' = "identified"
    /\ UNCHANGED notGap

\* the caller adds a stop at a density point and asks again
AddCandidateStop ==
    /\ pc \in {"analyzed", "identified"}
    /\ Len(candidate_stops) < MaxCandidates
    /\ \E i \in 1..Len(population_data.density_points) :
          candidate_stops' = Append(candidate_stops, population_data.density_points[i].pos)
    /\ gap_reports' =
          Append(gap_reports, identify_coverage_gaps(population_data, candidate_stops'))
    /\ pc' = "identified"
    /\ UNCHANGED notGap

NextGaps == AnalyzePopulationData \/ IdentifyCoverageGaps \/ AddCandidateStop

SpecGaps == InitGaps /\ [][NextGaps]_vars

\* C11: the analysis of a dataset of one density point of population 10,000
\* reports exactly one coverage gap, at that point, of severity "high"
C11_SinglePointGap ==
    (/\ pc = "analyzed"
     /\ Len(population_data.density_points) = 1
     /\ population_data.density_points[1].population = 10000)
    => /\ Len(gap_reports[1]) = 1
       /\ gap_reports[1][1].pos = population_data.density_points[1].pos
       /\ gap_reports[1][1].severity = "high"

\* the entries of a gap list at a position
GapsAt(gaps, pos) == SelectSeq(gaps, LAMBDA gap : gap.pos = pos)

\* the last stop of candidate_stops was added at a point the report before
\* it named as a gap
AddedAtReportedGap ==
    /\ Len(gap_reports) >= 2
    /\ \E k \in 1..Len(gap_reports[Len(gap_reports) - 1]) :
          /\ gap_reports[Len(gap_reports) - 1][k].pos = candidate_stops[Len(candidate_stops)]
          /\ gap_reports[Len(gap_reports) - 1][k].population > 500

\* C12: once a stop is added at a point reported as a gap, the next report
\* names that point no more, and names no point the report before did not
C12_AddedStopClosesGap ==
    AddedAtReportedGap =>
        LET before == gap_reports[Len(gap_reports) - 1]
            after == gap_reports[Len(gap_reports)]
            added == candidate_stops[Len(candidate_stops)]
        IN  /\ GapsAt(after, added) = <<>>
            /\ Len(GapsAt(after, added)) < Len(GapsAt(before, added))
            /\ \A k \in 1..Len(after) :
                  Len(SelectSeq(after, LAMBDA gap : gap = after[k]))
                      <= Len(SelectSeq(before, LAMBDA gap : gap = after[k]))

\* a stop was added at a reported gap while another point stays a gap
C12_Witness ==
    /\ AddedAtReportedGap
    /\ gap_reports[Len(gap_reports)] # <<>>

\* the analysis ran on more density points than max_stops
GreedyPlacement ==
    /\ pc = "analyzed"
    /\ Len(population_data.density_points) > max_stops

\* C29: with more density points than max_stops the greedy placement ends
\* with 1 to max_stops locations, each the position of a density point, and
\* any two of them more than 0.5 km apart (so no point is chosen twice)
C29_GreedyPlacementSpaced ==
    GreedyPlacement =>
        /\ Len(candidate_stops) >= 1 /\ Len(candidate_stops) <= max_stops
        /\ \A k \in 1..Len(candidate_stops) :
              \E i \in 1..Len(population_data.density_points) :
                  population_data.density_points[i].pos = candidate_stops[k]
        /\ \A j, k \in 1..Len(candidate_stops) :
              j # k => RLt(Rat(1, 2), calculate_distance(candidate_stops[j], candidate_stops[k]))

\* several locations were placed, fewer than max_stops, and a density point
\* half a kilometre from one of them was passed over
C29_Witness ==
    /\ GreedyPlacement
    /\ Len(candidate_stops) > 1 /\ Len(candidate_stops) < max_stops
    /\ \E i \in 1..Len(population_data.density_points) :
          /\ population_data.density_points[i].pos \notin Range(candidate_stops)
          /\ \E k \in 1..Len(candidate_stops) :
                calculate_distance(population_data.density_points[i].pos, candidate_stops[k])
                    = Rat(1, 2)

\* the density points the last stop list leaves uncovered: population above
\* 500 and farther than one kilometre from every candidate stop
UncoveredPoints ==
    {i \in 1..Len(population_data.density_points) :
        /\ population_data.density_points[i].population > 500
        /\ \A k \in 1..Len(candidate_stops) :
              RLt(R(1), calculate_distance(population_data.density_points[i].pos,
                                           candidate_stops[k]))}

\* the gap record the statement gives for a density point
GapRecord(point) ==
    [pos |-> point.pos, population |-> point.population,
     severity |-> IF point.population > 2000 THEN "high" ELSE "medium"]

\* C24: for any population data and any stop list, the empty one included,
\* the gaps reported are exactly the uncovered points of population above 500,
\* each tagged "high" above 2000 and "medium" otherwise, highest population
\* first
C24_ExactGaps ==
    pc \in {"analyzed", "identified"} =>
        LET gaps == gap_reports[Len(gap_reports)]
            points == population_data.density_points
        IN  /\ Len(gaps) = Cardinality(UncoveredPoints)
            /\ \A i \in UncoveredPoints :
                  Len(SelectSeq(gaps, LAMBDA gap : gap = GapRecord(points[i])))
                      = Cardinality({j \in UncoveredPoints : points[j] = points[i]})
            /\ \A k \in 1..(Len(gaps) - 1) : gaps[k].population >= gaps[k + 1].population

(***************************************************************************)
(* Bottleneck removal requests                                             *)
(***************************************************************************)
MaxBottleneckStops == 5
MaxBottlenecks == 2

BottleneckTypes == {"large_gap", "high_demand_stop", "accessibility_issue", "unknown"}
BottleneckSeverities == {"high", "medium", "low"}
BottleneckIndices == {0, 3}

\* bottleneck dictionaries with the keys the loop reads
BottleneckRecords ==
    [type : BottleneckTypes, stop_index : BottleneckIndices, severity : BottleneckSeverities]

\* stop lists of 0..MaxBottleneckStops stops: distinct stops half a kilometre
\* apart, and one stop repeated
BottleneckStopLists ==
    {[i \in 1..n |-> Stop(i, i - 1, <<>>, 100 * i, i % 2 = 0)] : n \in 0..MaxBottleneckStops}
    \cup {[i \in 1..n |-> Stop(1, 0, <<>>, 100, TRUE)] : n \in 0..MaxBottleneckStops}

InitRemove ==
    /\ pc = "start"
    /\ bottleneck_stops \in BottleneckStopLists
    /\ bottleneck_list \in SeqsUpTo(BottleneckRecords, MaxBottlenecks)
    /\ filtered_stops = <<>>
    /\ RankIdle /\ TspIdle /\ AnaIdle /\ MetIdle /\ OptIdle /\ BatchIdle /\ GapIdle /\ PathIdle /\ ScoreIdle /\ HeapIdle /\ WeightIdle

RemoveBottleneckStops ==
    /\ pc = "start"
    /\ filtered_stops' = remove_bottleneck_stops(bottleneck_stops, bottleneck_list)
    /\ pc' = "filtered"
    /\ UNCHANGED <<bottleneck_stops, bottleneck_list>>
    /\ UNCHANGED notRemove

NextRemove == RemoveBottleneckStops

SpecRemove == InitRemove /\ [][NextRemove]_vars

\* C21: _remove_bottleneck_stops returns the stops it was given, in the order
\* given, whatever the bottleneck list holds
C21_RemovesNothing ==
    pc = "filtered" => filtered_stops = bottleneck_stops

\* a list of more than three stops came back whole although a high-severity
\* high-demand bottleneck names one of them
C21_Witness ==
    /\ pc = "filtered"
    /\ Len(bottleneck_stops) > 3
    /\ \E k \in 1..Len(bottleneck_list) :
          /\ bottleneck_list[k].type = "high_demand_stop"
          /\ bottleneck_list[k].severity = "high"
          /\ bottleneck_list[k].stop_index < Len(bottleneck_stops)
    /\ filtered_stops = bottleneck_stops

(***************************************************************************)
(* Weighted scoring and ranking requests                                   *)
(***************************************************************************)
MaxWeighted == 2

WeightValues == {R(0), R(1), R(3)}

\* every dictionary over some of the six keys, and some with a key the scorer
\* does not know
WeightMaps ==
    UNION {[S -> WeightValues] : S \in SUBSET Range(weight_keys)}
    \cup {("other" :> R(1)),
          ("time_improvement" :> R(1)) @@ ("other" :> R(3)),
          ("time_improvement" :> R(0)) @@ ("other" :> R(0))}

\* the weights arguments tried when ranking
RankWeights ==
    {<<>>, <<default_weights>>, << <<>> >>,
     << ("time_improvement" :> R(1)) >>,
     << ("cost_savings" :> R(3)) @@ ("accessibility" :> R(1)) >>,
     << [k \in Range(weight_keys) |-> R(0)] >>}

WeightRoutes ==
    {[stops |-> <<Stop(1, 0, <<"wheelchair_accessible">>, 1000, TRUE),
                  Stop(2, 2, <<"shelter">>, 800, FALSE)>>]}

WeightMetrics ==
    {[time_improvement |-> R(10), distance_reduction |-> R(5),
      passenger_coverage_increase |-> R(20), cost_savings |-> R(40)],
     [time_improvement |-> R(30), distance_reduction |-> R(5),
      passenger_coverage_increase |-> R(0), cost_savings |-> R(20)]}

WeightPool ==
    [original_route_id : RankRouteIds, optimized_route : WeightRoutes, metrics : WeightMetrics]

InitWeight ==
    /\ pc = "call"
    /\ \/ /\ results \in {<<r>> : r \in {x \in WeightPool : x.original_route_id = 1}}
          /\ criteria = "overall_score"
          /\ weight_map \in {<<w>> : w \in WeightMaps}
       \/ /\ results \in SeqsUpTo(WeightPool, MaxWeighted)
          /\ criteria \in RankingCriteria
          /\ weight_map \in RankWeights
    /\ ranked_results = <<>>
    /\ weighted_scores = <<>>
    /\ TspIdle /\ AnaIdle /\ MetIdle /\ OptIdle /\ BatchIdle /\ GapIdle /\ PathIdle /\ ScoreIdle /\ HeapIdle /\ RemoveIdle

\* a caller takes the weighted composite score of each result it holds
CalculateWeightedOverallScore ==
    /\ pc = "call"
    /\ weighted_scores' =
          [i \in 1..Len(results) |-> calculate_weighted_overall_score(results[i], weight_map)]
    /\ pc' = "scored"
    /\ UNCHANGED <<rankVars, weight_map, notWeight>>

\* a caller ranks the list and passes the weights
RankWithWeights ==
    /\ pc = "call"
    /\ ranked_results' = rank_optimization_results(results, criteria, weight_map)
    /\ pc' = "ranked"
    /\ UNCHANGED <<results, criteria, weightVars, notWeight>>

NextWeight == CalculateWeightedOverallScore \/ RankWithWeights

SpecWeight == InitWeight /\ [][NextWeight]_vars

\* a dictionary with the default value under every one of the six keys it lacks
FilledFromDefaults(w) ==
    [k \in Range(weight_keys) |-> IF k \in DOMAIN w THEN w[k] ELSE default_weights[k]]

\* the sum of the components of a result, each times its weight in w over `total'
WeightedSum(result, w, S, total) ==
    RSum([i \in 1..Len(weight_keys) |->
            IF weight_keys[i] \in S
            THEN RMul(WeightedComponent(result, weight_keys[i]), RDiv(w[weight_keys[i]], total))
            ELSE R(0)])

\* C26 as stated: a component whose key the caller's dictionary lacks is
\* weighted with its default, and the weights applied sum to 1
C26_MissingWeightsDefault ==
    (/\ pc = "scored" /\ weight_map # <<>>
     /\ DOMAIN weight_map[1] \subseteq Range(weight_keys))
    => \A i \in 1..Len(results) :
          LET filled == FilledFromDefaults(weight_map[1])
              total == SumValues(filled, Range(weight_keys))
          IN  RLt(R(0), total) =>
                  weighted_scores[i] =
                      RMin(WeightedSum(results[i], filled, Range(weight_keys), total), R(100))

\* C26: the default table is taken only when no dictionary is given; of a
\* dictionary every value is divided by the sum of all its values when that
\* sum is positive (and left as it is otherwise), and only the components
\* whose keys it holds enter the score, which is capped at 100
C26_GivenWeightsOnly ==
    pc = "scored" =>
        \A i \in 1..Len(results) :
            LET w == IF weight_map = <<>> THEN default_weights ELSE weight_map[1]
                total == SumValues(w, DOMAIN w)
                held == DOMAIN w \cap Range(weight_keys)
            IN  weighted_scores[i] =
                    RMin(WeightedSum(results[i], w, held,
                                     IF RLt(R(0), total) THEN total ELSE R(1)), R(100))

\* a dictionary of positive sum that lacks the cost key: the score is the
\* normalized sum over the keys held, and not what default filling gives
C26_Witness ==
    /\ pc = "scored" /\ weight_map # <<>>
    /\ "cost_savings" \notin DOMAIN weight_map[1]
    /\ DOMAIN weight_map[1] # {}
    /\ DOMAIN weight_map[1] \subseteq Range(weight_keys)
    /\ \A k \in DOMAIN weight_map[1] : weight_map[1][k] = R(3)
    /\ weighted_scores[1] =
           WeightedSum(results[1], weight_map[1], DOMAIN weight_map[1],
                       SumValues(weight_map[1], DOMAIN weight_map[1]))
    /\ weighted_scores[1] #
           WeightedSum(results[1], FilledFromDefaults(weight_map[1]), Range(weight_keys),
                       SumValues(FilledFromDefaults(weight_map[1]), Range(weight_keys)))

MaxBuiltStops == 3

BuiltPositions == {0, 2, 6}             \* stops at one place, 1 km and 3 km along

\* stop lists of 1..MaxBuiltStops stops with distinct ids, several of which
\* may stand at the same place
BuiltStopLists ==
    UNION {{[i \in 1..n |-> Stop(i, at[i], <<"shelter">>, 1000 * i, i % 2 = 1)] :
               at \in [1..n -> BuiltPositions]} : n \in 1..MaxBuiltStops}

InitBuilt ==
    /\ pc = "build"
    /\ route \in {[stops |-> stops] : stops \in BuiltStopLists}
    /\ matrix = None
    /\ path_origin \in 1..(MaxBuiltStops + 1)
    /\ path_destination \in 1..(MaxBuiltStops + 1)
    /\ shortest_path = <<>>
    /\ stop_ids = <<>> /\ optimal_order = <<>>
    /\ population_data = None /\ efficiency_model = None /\ clock = 0 /\ analyses = <<>>
    /\ RankIdle /\ MetIdle /\ OptIdle /\ BatchIdle /\ GapIdle /\ ScoreIdle /\ HeapIdle /\ RemoveIdle /\ WeightIdle

\* calculator.calculate_path_matrix(route.stops)
CalculatePathMatrix ==
    /\ pc = "build"
    /\ matrix' = calculate_path_matrix(route.stops)
    /\ pc' = "call"
    /\ UNCHANGED <<stop_ids, optimal_order, notTsp>>

NextBuilt == CalculatePathMatrix \/ FindShortestPath

SpecBuilt == InitBuilt /\ [][NextBuilt]_vars

\* C30: on a matrix built from a list of stops, find_shortest_path between
\* two stop ids of the matrix always returns a path
C30_BuiltMatrixAlwaysHasPath ==
    (/\ pc = "done"
     /\ path_origin \in Range(matrix.stop_ids)
     /\ path_destination \in Range(matrix.stop_ids))
    => shortest_path # <<>>

====
